---------------------------- MODULE Spec2Model ----------------------------
(***************************************************************************)
(* A model of the zekta time-series engine: the ResizeableBuffer arena,    *)
(* the binary search, the ZektaTimeBucket (sorted run of fixed-size        *)
(* entries backed by one file, with flush / unload and its two auto        *)
(* timers) and the ZektaTimeSeries (sorted sparse list of buckets).        *)
(*                                                                         *)
(* Every public operation runs through the serialiser of its object        *)
(* (#run: queue.then(task, task)), so one action is one whole task.        *)
(* Offsets and lengths are byte counts, as in the source; an entry is one  *)
(* record of entryByteLength bytes.  The bytes of an arena at or beyond    *)
(* its length are never read before they are overwritten or zero-filled,   *)
(* so a stored arena keeps the entries below its length and its capacity.  *)
(***************************************************************************)
EXTENDS Integers, Sequences, FiniteSets, TLC

(* ---------------------------------------------------------------------- *)
(* Program constants                                                      *)
(* ---------------------------------------------------------------------- *)

timeRange == 512

timeByteLength == 8

valueByteLength == 8

entryByteLength == timeByteLength + valueByteLength

initialByteLength == 256

\* maxByteLength is 0x100000000 = 2 ^ maxByteLengthLog2
maxByteLengthLog2 == 32

\* length > maxByteLength, computed within 32-bit integers
overMaxByteLength(length) ==
  (length - 1) \div (2 ^ 16) >= 2 ^ (maxByteLengthLog2 - 16)

\* Math.min(maxByteLength, length)
minMaxByteLength(length) ==
  IF overMaxByteLength(length) THEN 2 ^ maxByteLengthLog2 ELSE length

(* ---------------------------------------------------------------------- *)
(* Bounds of the model                                                    *)
(* ---------------------------------------------------------------------- *)

\* the largest number of entries one bucket is driven to
MaxLen == 3

(* ---------------------------------------------------------------------- *)
(* Values, entries, inputs                                                *)
(* ---------------------------------------------------------------------- *)

\* a value is a byte string: its length and what distinguishes its content
Value(n, c) == [length |-> n, id |-> c]

\* a value of the wrong length
BadValue == Value(valueByteLength - 1, 1)

Entry(t, v) == [time |-> t, value |-> v]

\* what a zero-filled record decodes to
ZeroEntry == Entry(0, Value(valueByteLength, 0))

Min(a, b) == IF a < b THEN a ELSE b

Reverse(s) == [i \in 1..Len(s) |-> s[Len(s) + 1 - i]]

RECURSIVE Flat(_)
Flat(ss) == IF ss = <<>> THEN <<>> ELSE Head(ss) \o Flat(Tail(ss))

RECURSIVE SelectInRange(_, _, _)
\* the entries of s with a <= time <= b, in the order of s
SelectInRange(s, a, b) ==
  IF s = <<>> THEN <<>>
  ELSE IF a <= Head(s).time /\ Head(s).time <= b
       THEN <<Head(s)>> \o SelectInRange(Tail(s), a, b)
       ELSE SelectInRange(Tail(s), a, b)

RECURSIVE SelectOutOfRange(_, _, _)
\* the entries of s with time < a or time > b, in the order of s
SelectOutOfRange(s, a, b) ==
  IF s = <<>> THEN <<>>
  ELSE IF a <= Head(s).time /\ Head(s).time <= b
       THEN SelectOutOfRange(Tail(s), a, b)
       ELSE <<Head(s)>> \o SelectOutOfRange(Tail(s), a, b)

IsSorted(s) == \A i \in 1..(Len(s) - 1) : s[i].time <= s[i + 1].time

\* the number of positions of s holding e
Count(s, e) == Cardinality({i \in 1..Len(s) : s[i] = e})

SameMultiset(s, t) ==
  /\ Len(s) = Len(t)
  /\ \A i \in 1..Len(s) : Count(s, s[i]) = Count(t, s[i])

(* ---------------------------------------------------------------------- *)
(* binarySearch                                                           *)
(* ---------------------------------------------------------------------- *)

RECURSIVE binarySearchLoop(_, _, _)
\* compare is the callback, given as the function index |-> compare(index)
binarySearchLoop(low, high, compare) ==
  IF low <= high
  THEN LET mid == (low + high) \div 2
           result == compare[mid]
       IN  IF result = 0 THEN mid
           ELSE IF result < 0 THEN binarySearchLoop(mid + 1, high, compare)
           ELSE binarySearchLoop(low, mid - 1, compare)
  ELSE low

\* a search that starts with low = 1
binarySearchFromOne(length, compare) ==
  binarySearchLoop(1, length - 1, compare)

binarySearch(length, compare) == binarySearchLoop(0, length - 1, compare)

(* ---------------------------------------------------------------------- *)
(* ResizeableBuffer                                                       *)
(* A buffer in use: slots holds every record of the capacity,             *)
(* Len(slots) * entryByteLength = buffer.byteLength.                      *)
(* ---------------------------------------------------------------------- *)

RECURSIVE Log2Ceil(_, _)
\* the least e >= from with 2^e >= length * sqrt(2): ceil(log2(length) + 0.5);
\* a large even length is halved first, which takes exactly 1 from the
\* logarithm and keeps the squares within the integers of the checker
Log2Ceil(length, from) ==
  IF from = 0 /\ length >= 2 ^ 14 /\ length % 2 = 0
  THEN 1 + Log2Ceil(length \div 2, 0)
  ELSE IF (2 ^ from) * (2 ^ from) >= 2 * length * length THEN from
  ELSE Log2Ceil(length, from + 1)

\* (1 << e) >>> 0 : the shift count is taken modulo 32
getOptimalBufferLength(length) == 2 ^ (Log2Ceil(length, 0) % 32)

Zeros(n) == [i \in 1..n |-> ZeroEntry]

\* new ResizeableBuffer()
NewBuffer ==
  [slots |-> Zeros(initialByteLength \div entryByteLength), length |-> 0,
   resizable |-> TRUE]

\* new ResizeableBuffer(bytes.buffer, bytes.byteOffset, bytes.byteLength)
BufferOfFile(content) ==
  [slots |-> content, length |-> Len(content) * entryByteLength,
   resizable |-> FALSE]

byteLength(buf) == Len(buf.slots) * entryByteLength

\* the slots after the capacity became newByteLength: new bytes are zero
Regrown(slots, newByteLength) ==
  LET n == newByteLength \div entryByteLength
  IN  [i \in 1..n |-> IF i <= Len(slots) THEN slots[i] ELSE ZeroEntry]

resize(buf, newLength) ==
  IF buf.resizable
  THEN IF overMaxByteLength(newLength)
       THEN [ok |-> FALSE, buf |-> buf]
       ELSE IF newLength > byteLength(buf)
            THEN [ok |-> TRUE,
                  buf |-> [buf EXCEPT
                    !.slots = Regrown(buf.slots,
                      minMaxByteLength(getOptimalBufferLength(newLength))),
                    !.length = newLength]]
            ELSE [ok |-> TRUE, buf |-> [buf EXCEPT !.length = newLength]]
  ELSE IF newLength > byteLength(buf)
       THEN IF minMaxByteLength(getOptimalBufferLength(newLength))
                 < byteLength(buf)
            \* this.#bytes.set(currentBytes) throws RangeError: the new
            \* buffer is in place and #length is not yet assigned
            THEN [ok |-> FALSE,
                  buf |-> [slots |-> Regrown(<<>>,
                             minMaxByteLength(
                               getOptimalBufferLength(newLength))),
                           length |-> buf.length, resizable |-> TRUE]]
            ELSE [ok |-> TRUE,
                  buf |-> [slots |-> Regrown(buf.slots,
                             minMaxByteLength(
                               getOptimalBufferLength(newLength))),
                           length |-> newLength, resizable |-> TRUE]]
       ELSE [ok |-> TRUE, buf |-> [buf EXCEPT !.length = newLength]]

\* bytes.copyWithin(target, start, end) on the whole capacity
copyWithin(slots, target, start, end) ==
  LET t == target \div entryByteLength
      s == start \div entryByteLength
      count == Min(end - start, Len(slots) * entryByteLength - target)
                 \div entryByteLength
  IN  [i \in 1..Len(slots) |->
         IF t < i /\ i <= t + count THEN slots[s + (i - t)] ELSE slots[i]]

\* what is kept of a buffer between operations
Stored(buf) ==
  [defined |-> TRUE,
   bytes |-> SubSeq(buf.slots, 1, buf.length \div entryByteLength),
   byteLength |-> byteLength(buf), resizable |-> buf.resizable]

\* the buffer of a stored arena
Buffer(data) ==
  [slots |-> Regrown(data.bytes, data.byteLength),
   length |-> Len(data.bytes) * entryByteLength, resizable |-> data.resizable]

(* ---------------------------------------------------------------------- *)
(* ZektaTimeBucket: construction and the reads of its buffer              *)
(* ---------------------------------------------------------------------- *)

\* #data === undefined
NoData ==
  [defined |-> FALSE, bytes |-> <<>>, byteLength |-> 0, resizable |-> FALSE]

\* a bucket file that does not exist (ENOENT)
NoFile == [exists |-> FALSE, content |-> <<>>]

\* a bucket file holding content
File(content) == [exists |-> TRUE, content |-> content]

\* a time is a number of JavaScript: NaN stands for the one of them that
\* every sum, product and quotient of it yields again, and that is neither
\* zero nor below zero.  No time, id or difference of the model reaches it
NaN == 2 ^ 20

\* the comparisons <, <=, >=, > and === of two numbers are false when one of
\* them is NaN
Ordered(a, b) == NaN \notin {a, b}

\* Math.floor(time / timeRange)
getIdFromTime(time) == IF time = NaN THEN NaN ELSE time \div timeRange

getTimeFromId(id) == IF id = NaN THEN NaN ELSE id * timeRange

\* a bucket that takes the id before its own
NewBucketOfPreviousId(id) ==
  [id |-> IF id = NaN THEN NaN ELSE id - 1, from |-> getTimeFromId(id),
   to |-> getTimeFromId(IF id = NaN THEN NaN ELSE id + 1),
   data |-> NoData, requireFlush |-> FALSE,
   autoFlushTimer |-> FALSE, autoUnloadTimer |-> FALSE,
   flushTimeouts |-> 0, unloadTimeouts |-> 0]

\* new ZektaTimeBucket({ bucketsPath, id, valueByteLength })
NewBucket(id) ==
  [id |-> id, from |-> getTimeFromId(id),
   to |-> getTimeFromId(IF id = NaN THEN NaN ELSE id + 1),
   data |-> NoData, requireFlush |-> FALSE,
   autoFlushTimer |-> FALSE, autoUnloadTimer |-> FALSE,
   flushTimeouts |-> 0, unloadTimeouts |-> 0]

\* a range that includes its upper bound
isTimeInRangeClosed(b, time) ==
  /\ Ordered(b.from, time) /\ b.from <= time
  /\ Ordered(time, b.to) /\ time <= b.to

isTimeInRange(b, time) ==
  /\ Ordered(b.from, time) /\ b.from <= time
  /\ Ordered(time, b.to) /\ time < b.to

getTime(buf, entryByteOffset) ==
  buf.slots[entryByteOffset \div entryByteLength + 1].time

getEntry(buf, entryByteOffset) ==
  buf.slots[entryByteOffset \div entryByteLength + 1]

\* every entry goes to the end
getInsertionByteOffsetAtEnd(buf, time) == buf.length

getInsertionByteOffset(buf, time) ==
  IF buf.length = 0 THEN 0
  ELSE LET lastEntryByteOffset == buf.length - entryByteLength
       IN  IF time >= getTime(buf, lastEntryByteOffset) THEN buf.length
           ELSE IF time <= getTime(buf, 0) THEN 0
           ELSE binarySearch(buf.length \div entryByteLength,
                  [index \in 0..(buf.length \div entryByteLength - 1) |->
                     getTime(buf, index * entryByteLength) - time])
                * entryByteLength

RECURSIVE walkBackward(_, _, _)
\* while (offset >= R && from === getTime(offset - R)) offset -= R
walkBackward(buf, from, fromEntryByteOffset) ==
  IF /\ fromEntryByteOffset >= entryByteLength
     /\ from = getTime(buf, fromEntryByteOffset - entryByteLength)
  THEN walkBackward(buf, from, fromEntryByteOffset - entryByteLength)
  ELSE fromEntryByteOffset

RECURSIVE walkForward(_, _, _)
\* while (offset < length && to === getTime(offset)) offset += R
walkForward(buf, to, toEntryByteOffset) ==
  IF /\ toEntryByteOffset < buf.length
     /\ to = getTime(buf, toEntryByteOffset)
  THEN walkForward(buf, to, toEntryByteOffset + entryByteLength)
  ELSE toEntryByteOffset

getTimeRangeByteOffsets(buf, from, to) ==
  [from |-> walkBackward(buf, from, getInsertionByteOffset(buf, from)),
   to |-> walkForward(buf, to, getInsertionByteOffset(buf, to))]

\* a #pushRaw that writes the entry without moving those behind it
pushRawOverwriting(buf, time, value) ==
  LET insertByteOffset == getInsertionByteOffset(buf, time)
      r == resize(buf, buf.length + entryByteLength)
      slot == insertByteOffset \div entryByteLength + 1
  IN  IF ~r.ok THEN [ok |-> FALSE, buf |-> buf]
      ELSE [ok |-> TRUE,
            buf |-> [r.buf EXCEPT !.slots[slot] = Entry(time, value)]]

\* the outcome of #pushRaw: ok is FALSE when resize throws
pushRaw(buf, time, value) ==
  LET insertByteOffset == getInsertionByteOffset(buf, time)
      r == resize(buf, buf.length + entryByteLength)
      moved == copyWithin(r.buf.slots, insertByteOffset + entryByteLength,
                          insertByteOffset, r.buf.length)
      slot == insertByteOffset \div entryByteLength + 1
  IN  IF ~r.ok THEN [ok |-> FALSE, buf |-> buf]
      ELSE [ok |-> TRUE,
            buf |-> [r.buf EXCEPT
                       !.slots = [moved EXCEPT ![slot] = Entry(time, value)]]]

(* ---------------------------------------------------------------------- *)
(* ZektaTimeBucket: the tasks run on the loaded buffer.  A task yields    *)
(* ok (FALSE: it threw, value is the error), the buffer it left, dirty    *)
(* (it called requireFlush) and the value it returned.                    *)
(* ---------------------------------------------------------------------- *)

Thrown(buf, error) ==
  [ok |-> FALSE, buf |-> buf, dirty |-> FALSE, value |-> <<>>,
   error |-> error]

Returned(buf, dirty, value) ==
  [ok |-> TRUE, buf |-> buf, dirty |-> dirty, value |-> value, error |-> ""]

RECURSIVE insertSorted(_, _)
insertSorted(e, s) ==
  IF s = <<>> THEN <<e>>
  ELSE IF e.time < Head(s).time THEN <<e>> \o s
  ELSE <<Head(s)>> \o insertSorted(e, Tail(s))

RECURSIVE sortTimeSeriesEntries(_)
\* entries.sort(sortTimeSeriesEntries): a stable sort by ascending time
sortTimeSeriesEntries(entries) ==
  IF entries = <<>> THEN <<>>
  ELSE LET n == Len(entries)
       IN  insertSorted(entries[n],
                        sortTimeSeriesEntries(SubSeq(entries, 1, n - 1)))

pushTask(b, buf, time, value) ==
  IF ~isTimeInRange(b, time) THEN Thrown(buf, "RangeError")
  ELSE IF value.length # valueByteLength THEN Thrown(buf, "Error")
  ELSE LET p == pushRaw(buf, time, value)
       IN  IF p.ok THEN Returned(p.buf, TRUE, <<>>)
           ELSE Thrown(buf, "Error")

RECURSIVE insertLoop(_, _, _)
\* the for loop of insert: an entry that throws leaves the earlier ones pushed
insertLoop(b, buf, entries) ==
  IF entries = <<>> THEN Returned(buf, TRUE, <<>>)
  ELSE LET e == Head(entries)
       IN  IF ~isTimeInRange(b, e.time) THEN Thrown(buf, "RangeError")
           ELSE IF e.value.length # valueByteLength THEN Thrown(buf, "Error")
           ELSE LET p == pushRaw(buf, e.time, e.value)
                IN  IF p.ok THEN insertLoop(b, p.buf, Tail(entries))
                    ELSE Thrown(buf, "Error")

insertTask(b, buf, entries) ==
  IF Len(entries) = 0 THEN Returned(buf, FALSE, <<>>)
  ELSE insertLoop(b, buf, sortTimeSeriesEntries(entries))

selectTask(buf, asc, from, to) ==
  LET o == getTimeRangeByteOffsets(buf, from, to)
      n == (o.to - o.from) \div entryByteLength
  IN  IF n < 0 THEN Thrown(buf, "RangeError")
      ELSE IF asc
      THEN Returned(buf, FALSE,
             [entryIndex \in 1..n |->
                getEntry(buf, o.from + (entryIndex - 1) * entryByteLength)])
      ELSE Returned(buf, FALSE,
             [entryIndex \in 1..n |->
                getEntry(buf, (o.to - entryByteLength)
                                - (entryIndex - 1) * entryByteLength)])

deleteTask(buf, from, to) ==
  LET o == getTimeRangeByteOffsets(buf, from, to)
      moved == copyWithin(buf.slots, o.from, o.to, buf.length)
      r == resize([buf EXCEPT !.slots = moved],
                  buf.length - (o.to - o.from))
  IN  IF o.from = o.to THEN Returned(buf, FALSE, <<>>)
      ELSE IF r.ok THEN Returned(r.buf, TRUE, <<>>)
      ELSE Thrown([buf EXCEPT !.slots = moved], "Error")

dropTask(buf) ==
  IF buf.length = 0 THEN Returned(buf, FALSE, <<>>)
  ELSE Returned(resize(buf, 0).buf, TRUE, <<>>)

(* ---------------------------------------------------------------------- *)
(* ZektaTimeBucket: the operations.  An operation takes the bucket b, the *)
(* content of its file and whether its file I/O succeeds, and yields the  *)
(* bucket and the file it leaves, ok (FALSE: the promise rejects) and the *)
(* value it settles with.                                                 *)
(* ---------------------------------------------------------------------- *)

\* #loadData: the arena the bucket holds afterwards
loadData(b, file, ioOk) ==
  IF b.data.defined THEN [ok |-> TRUE, data |-> b.data]
  ELSE IF ~ioOk THEN [ok |-> FALSE, data |-> NoData]
  ELSE IF ~file.exists THEN [ok |-> TRUE, data |-> Stored(NewBuffer)]
  ELSE [ok |-> TRUE, data |-> Stored(BufferOfFile(file.content))]

\* The two timers.  autoFlushTimer and autoUnloadTimer tell whether the
\* fields #autoFlushTimer and #autoUnloadTimer hold a handle; flushTimeouts
\* and unloadTimeouts count the callbacks handed to setTimeout that have
\* neither run nor been cleared.

\* a #stopAutoFlushTimer that leaves the timer as it is
keepAutoFlushTimer(b) == b

\* #stopAutoFlushTimer: clearTimeout when a handle is held
stopAutoFlushTimer(b) ==
  IF b.autoFlushTimer
  THEN [b EXCEPT !.autoFlushTimer = FALSE, !.flushTimeouts = @ - 1]
  ELSE b

\* #startAutoFlushTimer: stop, then setTimeout
startAutoFlushTimer(b) ==
  [stopAutoFlushTimer(b) EXCEPT !.autoFlushTimer = TRUE,
                                !.flushTimeouts = @ + 1]

\* a #stopAutoUnloadTimer that leaves the timer as it is
keepAutoUnloadTimer(b) == b

\* #stopAutoUnloadTimer
stopAutoUnloadTimer(b) ==
  IF b.autoUnloadTimer
  THEN [b EXCEPT !.autoUnloadTimer = FALSE, !.unloadTimeouts = @ - 1]
  ELSE b

\* #startAutoUnloadTimer
startAutoUnloadTimer(b) ==
  [stopAutoUnloadTimer(b) EXCEPT !.autoUnloadTimer = TRUE,
                                  !.unloadTimeouts = @ + 1]

\* the callback of a timer runs: it clears the field that held its handle
\* (and then calls flush)
timerFired(b, isUnload) ==
  IF isUnload
  THEN [b EXCEPT !.autoUnloadTimer = FALSE, !.unloadTimeouts = @ - 1]
  ELSE [b EXCEPT !.autoFlushTimer = FALSE, !.flushTimeouts = @ - 1]

\* a finally block that starts the auto-flush timer alone
startFlushTimerOnly(b) == startAutoFlushTimer(b)

\* the first two statements of the task of #runDataOperation
stopTimers(b) == stopAutoUnloadTimer(stopAutoFlushTimer(b))

\* the finally block of the task of #runDataOperation
startTimers(b) == startAutoUnloadTimer(startAutoFlushTimer(b))

\* the buffer a task works on: the one #loadData leaves in #data
Loaded(b, file, ioOk) == Buffer(loadData(b, file, ioOk).data)

\* a #runDataOperation whose task calls requireFlush before the data is
\* loaded
runDataOperationMarkingFirst(b, file, l, t) ==
  IF ~l.ok
  THEN [b |-> [startTimers(stopTimers(b)) EXCEPT !.requireFlush = TRUE],
        file |-> file, ok |-> FALSE, value |-> <<>>, error |-> "IoError"]
  ELSE [b |-> startTimers([stopTimers(b) EXCEPT
                 !.data = Stored(t.buf),
                 !.requireFlush = TRUE]),
        file |-> file, ok |-> t.ok, value |-> t.value, error |-> t.error]

\* #runDataOperation: timers stopped, data loaded, the task run, and in the
\* finally block both timers started; l is the outcome of #loadData and t
\* the outcome of the task on the loaded buffer, which is run (and looked
\* at) only when the load succeeded
runDataOperation(b, file, l, t) ==
  IF ~l.ok
  THEN [b |-> startTimers(stopTimers(b)), file |-> file, ok |-> FALSE,
        value |-> <<>>, error |-> "IoError"]
  ELSE [b |-> startTimers([stopTimers(b) EXCEPT
                 !.data = Stored(t.buf),
                 !.requireFlush = b.requireFlush \/ t.dirty]),
        file |-> file, ok |-> t.ok, value |-> t.value, error |-> t.error]

push(b, file, ioOk, time, value) ==
  runDataOperation(b, file, loadData(b, file, ioOk),
                   pushTask(b, Loaded(b, file, ioOk), time, value))

insert(b, file, ioOk, entries) ==
  runDataOperation(b, file, loadData(b, file, ioOk),
                   insertTask(b, Loaded(b, file, ioOk), entries))

\* a select that loads the data before it looks at the range
selectLoadingFirst(b, file, ioOk, asc, from, to) ==
  runDataOperation(b, file, loadData(b, file, ioOk),
                   selectTask(Loaded(b, file, ioOk), asc, from, to))

select(b, file, ioOk, asc, from, to) ==
  IF (Ordered(from, b.to) /\ from >= b.to)
       \/ (Ordered(to, b.from) /\ to < b.from)
  THEN [b |-> b, file |-> file, ok |-> TRUE, value |-> <<>>, error |-> ""]
  ELSE runDataOperation(b, file, loadData(b, file, ioOk),
                        selectTask(Loaded(b, file, ioOk), asc, from, to))

delete(b, file, ioOk, from, to) ==
  IF (Ordered(from, b.to) /\ from >= b.to)
       \/ (Ordered(to, b.from) /\ to < b.from)
  THEN [b |-> b, file |-> file, ok |-> TRUE, value |-> <<>>, error |-> ""]
  ELSE runDataOperation(b, file, loadData(b, file, ioOk),
                        deleteTask(Loaded(b, file, ioOk), from, to))

drop(b, file, ioOk) ==
  runDataOperation(b, file, loadData(b, file, ioOk),
                   dropTask(Loaded(b, file, ioOk)))

\* a flush that writes the file even when the bucket is empty
flushAlwaysWriting(b, file, ioOk, unload) ==
  IF b.requireFlush /\ b.data.defined /\ ioOk
  THEN [b |-> [b EXCEPT !.requireFlush = FALSE,
                        !.data = IF unload THEN NoData ELSE @],
        file |-> File(b.data.bytes), ok |-> TRUE, value |-> <<>>,
        error |-> ""]
  ELSE [b |-> [b EXCEPT !.data = IF unload /\ ~b.requireFlush
                                 THEN NoData ELSE @],
        file |-> file, ok |-> ~b.requireFlush, value |-> <<>>,
        error |-> IF b.requireFlush THEN "Error" ELSE ""]

\* a flush that releases the data although its write failed
flushReleasingOnFailure(b, file, ioOk, unload) ==
  IF b.requireFlush /\ b.data.defined /\ ~ioOk
  THEN [b |-> [b EXCEPT !.data = IF unload THEN NoData ELSE @],
        file |-> file, ok |-> FALSE, value |-> <<>>, error |-> "IoError"]
  ELSE IF b.requireFlush /\ b.data.defined
  THEN [b |-> [b EXCEPT !.requireFlush = FALSE,
                        !.data = IF unload THEN NoData ELSE @],
        file |-> IF Len(b.data.bytes) = 0 THEN NoFile
                 ELSE File(b.data.bytes),
        ok |-> TRUE, value |-> <<>>, error |-> ""]
  ELSE [b |-> [b EXCEPT !.data = IF unload /\ ~b.requireFlush
                                 THEN NoData ELSE @],
        file |-> file, ok |-> ~b.requireFlush, value |-> <<>>,
        error |-> IF b.requireFlush THEN "TypeError" ELSE ""]

\* flush({ unload }): mkdir, then rm or writeFile; ioOk is FALSE when one
\* of them throws
flush(b, file, ioOk, unload) ==
  LET unloaded == [b EXCEPT !.data = IF unload THEN NoData ELSE @]
  IN  IF b.requireFlush
      THEN IF ~b.data.defined
           THEN [b |-> b, file |-> file, ok |-> FALSE, value |-> <<>>,
                 error |-> "TypeError"]
           ELSE IF ~ioOk
           THEN [b |-> b, file |-> file, ok |-> FALSE, value |-> <<>>,
                 error |-> "IoError"]
           ELSE [b |-> [unloaded EXCEPT !.requireFlush = FALSE],
                 file |-> IF Len(b.data.bytes) = 0 THEN NoFile
                          ELSE File(b.data.bytes),
                 ok |-> TRUE, value |-> <<>>, error |-> ""]
      ELSE [b |-> unloaded, file |-> file, ok |-> TRUE, value |-> <<>>,
            error |-> ""]

(* ---------------------------------------------------------------------- *)
(* ZektaTimeSeries                                                        *)
(* bs is the #buckets list, fs the buckets directory, io[id] tells        *)
(* whether the file system answers for <id>.bucket during the operation.  *)
(* An operation yields [buckets, files, ok, value, error].                *)
(* ---------------------------------------------------------------------- *)

\* a handler that throws the reason of the first rejected promise
throwFirstReason(results) ==
  LET errors == SelectSeq(results, LAMBDA result : ~result.ok)
  IN  IF Len(errors) = 0
      THEN [ok |-> TRUE,
            value |-> [k \in 1..Len(results) |-> results[k].value],
            error |-> "", errors |-> <<>>]
      ELSE [ok |-> FALSE, value |-> <<>>, error |-> errors[1].error,
            errors |-> <<>>]

\* errors: the reasons an AggregateError carries
handlePromiseAllSettledResult(results) ==
  LET errors == SelectSeq(results, LAMBDA result : ~result.ok)
  IN  IF Len(errors) = 0
      THEN [ok |-> TRUE,
            value |-> [k \in 1..Len(results) |-> results[k].value],
            error |-> "", errors |-> <<>>]
      ELSE IF Len(errors) = 1
      THEN [ok |-> FALSE, value |-> <<>>, error |-> errors[1].error,
            errors |-> <<>>]
      ELSE [ok |-> FALSE, value |-> <<>>, error |-> "AggregateError",
            errors |-> [k \in 1..Len(errors) |-> errors[k].error]]

\* the comparison callback handed to binarySearch by the series
compareIds(bs, bucketId) ==
  [indexInArray \in 0..(Len(bs) - 1) |->
     IF Ordered(bs[indexInArray + 1].id, bucketId)
     THEN bs[indexInArray + 1].id - bucketId ELSE NaN]

\* #getBucket: the list with the bucket of the time in it, and its index
getBucket(bs, time) ==
  LET bucketId == getIdFromTime(time)
      insertIndexInArray == binarySearch(Len(bs), compareIds(bs, bucketId))
  IN  IF /\ insertIndexInArray < Len(bs)
         /\ Ordered(bs[insertIndexInArray + 1].id, bucketId)
         /\ bs[insertIndexInArray + 1].id = bucketId
      THEN [buckets |-> bs, index |-> insertIndexInArray]
      ELSE [buckets |-> SubSeq(bs, 1, insertIndexInArray)
                          \o <<NewBucket(bucketId)>>
                          \o SubSeq(bs, insertIndexInArray + 1, Len(bs)),
            index |-> insertIndexInArray]

\* a span that ends at the insertion index of the last id
getTimeRangeBucketIndexesBefore(bs, from, to) ==
  [from |-> binarySearch(Len(bs), compareIds(bs, getIdFromTime(from))),
   to |-> binarySearch(Len(bs), compareIds(bs, getIdFromTime(to)))]

getTimeRangeBucketIndexesInArray(bs, from, to) ==
  LET fromBucketIndex == getIdFromTime(from)
      toBucketIndex == getIdFromTime(to)
  IN  [from |-> binarySearch(Len(bs), compareIds(bs, fromBucketIndex)),
       to |-> Min(Len(bs),
                  binarySearch(Len(bs), compareIds(bs, toBucketIndex)) + 1)]

\* the bucket operation a series operation hands to each bucket
bucketCall(b, file, ioOk, call) ==
  CASE call.op = "select" ->
         select(b, file, ioOk, call.asc, call.from, call.to)
    [] call.op = "delete" -> delete(b, file, ioOk, call.from, call.to)
    [] call.op = "drop" -> drop(b, file, ioOk)
    [] call.op = "flush" -> flush(b, file, ioOk, call.unload)

Call(op, asc, from, to, unload) ==
  [op |-> op, asc |-> asc, from |-> from, to |-> to, unload |-> unload]

\* the state of a series operation under way: the bucket list, the
\* directory, and the results of the bucket promises settled so far
Calls(bs, fs, results) == [buckets |-> bs, files |-> fs, results |-> results]

\* the bucket at index j (from 1) and its file take the outcome r
settleCall(c, j, r) ==
  Calls([c.buckets EXCEPT ![j] = r.b],
        [c.files EXCEPT ![c.buckets[j].id] = r.file],
        Append(c.results, r))

RECURSIVE callEach(_, _, _, _)
\* the call made on the buckets at the given indexes, in this order; the
\* buckets work on different files, so that their tasks do not interfere
callEach(c, io, indexes, call) ==
  IF indexes = <<>> THEN c
  ELSE callEach(settleCall(c, Head(indexes) + 1,
                           bucketCall(c.buckets[Head(indexes) + 1],
                                      c.files[c.buckets[Head(indexes) + 1].id],
                                      io[c.buckets[Head(indexes) + 1].id],
                                      call)),
                io, Tail(indexes), call)

\* the outcome of a series operation whose bucket promises are settled
\* together: its value is the flattened values of the promises (flat), or
\* none
settleAll(c, settled, flat) ==
  [buckets |-> c.buckets, files |-> c.files, ok |-> settled.ok,
   value |-> IF flat THEN Flat(settled.value) ELSE <<>>,
   error |-> settled.error]

concurrentPromises(c) ==
  settleAll(c, handlePromiseAllSettledResult(c.results), FALSE)

\* the indexes in ascending order whatever the direction
indexesAscending(x, asc) ==
  IF x.to <= x.from THEN <<>>
  ELSE [k \in 1..(x.to - x.from) |-> x.from + k - 1]

\* the indexes from (included) to (excluded), ascending or descending
indexesBetween(x, asc) ==
  IF x.to <= x.from THEN <<>>
  ELSE [k \in 1..(x.to - x.from) |->
          IF asc THEN x.from + k - 1 ELSE x.to - k]

\* this.#getBucket(time).push(time, value), g being the outcome of #getBucket
pushInto(g, c, io, e) ==
  settleCall(Calls(g.buckets, c.files, c.results), g.index + 1,
             push(g.buckets[g.index + 1], c.files[getIdFromTime(e.time)],
                  io[getIdFromTime(e.time)], e.time, e.value))

RECURSIVE pushEach(_, _, _)
\* this.#getBucket(time).push(time, value) for each entry in turn
pushEach(c, io, entries) ==
  IF entries = <<>> THEN c
  ELSE pushEach(pushInto(getBucket(c.buckets, Head(entries).time), c, io,
                         Head(entries)),
                io, Tail(entries))

\* the outcome of the one promise of c
settleOne(c) ==
  [buckets |-> c.buckets, files |-> c.files, ok |-> c.results[1].ok,
   value |-> <<>>, error |-> c.results[1].error]

seriesPush(bs, fs, io, time, value) ==
  settleOne(pushEach(Calls(bs, fs, <<>>), io, <<Entry(time, value)>>))

seriesInsert(bs, fs, io, entries) ==
  IF Len(entries) = 0
  THEN [buckets |-> bs, files |-> fs, ok |-> TRUE, value |-> <<>>,
        error |-> ""]
  ELSE concurrentPromises(pushEach(Calls(bs, fs, <<>>), io,
                                   sortTimeSeriesEntries(entries)))

\* handlePromiseAllSettledResult(await Promise.allSettled(promises)).flat()
settleFlat(c) ==
  settleAll(c, handlePromiseAllSettledResult(c.results), TRUE)

seriesSelect(bs, fs, io, asc, from, to) ==
  settleFlat(callEach(Calls(bs, fs, <<>>), io,
                      indexesBetween(
                        getTimeRangeBucketIndexesInArray(bs, from, to), asc),
                      Call("select", asc, from, to, FALSE)))

seriesDelete(bs, fs, io, from, to) ==
  concurrentPromises(
    callEach(Calls(bs, fs, <<>>), io,
             indexesBetween(
               getTimeRangeBucketIndexesInArray(bs, from, to), TRUE),
             Call("delete", TRUE, from, to, FALSE)))

\* the indexes of every bucket of the list, as this.#buckets.map visits them
allIndexes(bs) == [k \in 1..Len(bs) |-> k - 1]

seriesDrop(bs, fs, io) ==
  concurrentPromises(callEach(Calls(bs, fs, <<>>), io, allIndexes(bs),
                              Call("drop", TRUE, 0, 0, FALSE)))

seriesFlush(bs, fs, io, unload) ==
  concurrentPromises(callEach(Calls(bs, fs, <<>>), io, allIndexes(bs),
                              Call("flush", TRUE, 0, 0, unload)))

RECURSIVE sortFnc(_)
\* the buckets of the given ids, sorted by ZektaTimeBucket.sortFnc
sortFnc(ids) ==
  IF ids = {} THEN <<>>
  ELSE LET id == CHOOSE a \in ids : \A b \in ids : a - b <= 0
       IN  <<NewBucket(id)>> \o sortFnc(ids \ {id})

\* an open that finds no bucket file
openNothing(fs) == <<>>

\* ZektaTimeSeries.open on an existing series directory: one unloaded
\* bucket per file of the buckets directory
open(fs) == sortFnc({id \in DOMAIN fs : fs[id].exists})

\* no file zekta.config.json
NoConfig == [exists |-> FALSE, version |-> 0, valueByteLength |-> 0]

\* the file zekta.config.json holding { version, valueByteLength }
ConfigV1(version, length) ==
  [exists |-> TRUE, version |-> version, valueByteLength |-> length]

\* step 1 of open that takes the caller's valueByteLength whatever the
\* file holds
openConfigUnchecked(file, o) ==
  [ok |-> file.exists \/ o.valueByteLength.defined, error |-> "Error",
   config |-> file,
   valueByteLength |-> IF o.valueByteLength.defined
                       THEN o.valueByteLength.value ELSE file.valueByteLength]

\* ZektaTimeSeries.open, 1) load config file.  o: the options of the call
\* and what the file system answers (read: readFile does not fail for
\* another reason than ENOENT; write: mkdir and writeFile do not fail)
openConfig(file, o) ==
  IF ~o.read
  THEN [ok |-> FALSE, error |-> "IoError", config |-> file,
        valueByteLength |-> 0]
  ELSE IF file.exists
  THEN IF file.version # 1
       THEN [ok |-> FALSE, error |-> "Error", config |-> file,
             valueByteLength |-> 0]
       ELSE IF ~o.valueByteLength.defined
       THEN [ok |-> TRUE, error |-> "", config |-> file,
             valueByteLength |-> file.valueByteLength]
       ELSE IF file.valueByteLength # o.valueByteLength.value
       THEN [ok |-> FALSE, error |-> "Error", config |-> file,
             valueByteLength |-> 0]
       ELSE [ok |-> TRUE, error |-> "", config |-> file,
             valueByteLength |-> o.valueByteLength.value]
  ELSE IF ~o.create
  THEN [ok |-> FALSE, error |-> "ENOENT", config |-> file,
        valueByteLength |-> 0]
  ELSE IF ~o.valueByteLength.defined
  THEN [ok |-> FALSE, error |-> "Error", config |-> file,
        valueByteLength |-> 0]
  ELSE IF ~o.write
  THEN [ok |-> FALSE, error |-> "IoError", config |-> file,
        valueByteLength |-> 0]
  ELSE [ok |-> TRUE, error |-> "",
        config |-> ConfigV1(1, o.valueByteLength.value),
        valueByteLength |-> o.valueByteLength.value]

\* ZektaTimeSeries.open: the config file, then 2) load buckets (readdir:
\* readdir does not fail for another reason than ENOENT; names: the stem of
\* every file name of the buckets directory is a safe integer)
openSeries(file, fs, o) ==
  LET c == openConfig(file, o)
  IN
    [ok |-> c.ok /\ o.readdir /\ o.names,
     error |-> IF ~c.ok THEN c.error
               ELSE IF ~o.readdir THEN "IoError"
               ELSE IF ~o.names THEN "Error" ELSE "",
     config |-> c.config,
     buckets |-> IF c.ok /\ o.readdir /\ o.names THEN open(fs) ELSE <<>>]

(* ---------------------------------------------------------------------- *)
(* State                                                                  *)
(* ---------------------------------------------------------------------- *)

VARIABLES
  buckets,   \* the bucket objects: the #buckets list of a series, or the
             \* one bucket of a program that uses a ZektaTimeBucket alone
  files,     \* the buckets directory: bucket id |-> content of <id>.bucket
  lastOp,    \* the operation that settled last: its call and its outcome
  dropped,   \* history: a drop has completed and nothing was stored since
  program,   \* what the program holds: "bucket" (one ZektaTimeBucket used
             \* for its data operations), "store" (one ZektaTimeBucket used
             \* with its file and timers) or "series" (a ZektaTimeSeries)
  queue,     \* the #queue promise chain of the object whose callers do not
             \* await: the operations submitted and not settled, and what is
             \* remembered of the settled ones
  config     \* the file zekta.config.json of the directory of a series

vars == <<buckets, files, lastOp, dropped, program, queue, config>>

\* the ids of the bucket files the model looks at
BucketIds == (0..3) \cup {NaN}

\* the call and the outcome of an operation
Op(name, r) ==
  [op |-> name, ok |-> r.ok, value |-> r.value, error |-> r.error]

NoOp == [op |-> "none", ok |-> TRUE, value |-> <<>>, error |-> ""]

\* this.#queue = Promise.resolve(): nothing submitted, and the promise the
\* next task is chained to is fulfilled
NoQueue ==
  [next |-> 1, calls |-> 0, chain |-> <<>>, settledAs |-> "fulfilled",
   settledId |-> 0, settledOp |-> "", settledAfter |-> {}, ran |-> TRUE,
   burst |-> {}, acked |-> {}]

\* the entries a bucket holds: in memory when loaded, else in its file
Entries(b, file) ==
  IF b.data.defined THEN b.data.bytes ELSE file.content

Size(b, file) == Len(Entries(b, file))

\* I/O outcomes worth drawing for a data operation: a read happens only
\* when the bucket is unloaded
ReadOutcomes(b) == IF ~b.data.defined THEN BOOLEAN ELSE {TRUE}

\* I/O outcomes worth drawing for a flush: a write happens only when dirty
WriteOutcomes(b) == IF b.requireFlush THEN BOOLEAN ELSE {TRUE}

(* ---------------------------------------------------------------------- *)
(* SpecBucket: a ZektaTimeBucket used alone (debugZekta_01), bucket 1 =   *)
(* [512, 1024), between two flushes: it is constructed over the file an   *)
(* earlier session left (or none) and takes data operations.              *)
(* ---------------------------------------------------------------------- *)

\* the id of the bucket of the times [512, 1024)
AloneId == getIdFromTime(timeRange)

V1 == Value(valueByteLength, 1)

V2 == Value(valueByteLength, 2)

\* entries handed to push: the first, an inner (with either value) and the
\* last time of the bucket, the times just outside it, and a value of the
\* wrong length
AloneEntries ==
  {Entry(512, V1), Entry(600, V1), Entry(600, V2), Entry(1023, V2),
   Entry(511, V1), Entry(1024, V1), Entry(600, BadValue)}

\* batches handed to insert: empty, one entry, unsorted, with equal times,
\* and with an entry that is rejected after another was stored
AloneBatches ==
  {<<>>, <<Entry(600, V2)>>, <<Entry(1023, V2), Entry(512, V1)>>,
   <<Entry(600, V2), Entry(600, V1)>>, <<Entry(1024, V1), Entry(600, V1)>>,
   <<Entry(600, BadValue), Entry(512, V1)>>, <<Entry(511, V1)>>}

\* range bounds handed to select and delete: first, inner and last time of
\* the bucket, and the first time beyond it
AloneBounds == {512, 600, 1023, 1024}

\* the files an earlier session may have left
AloneFiles ==
  {NoFile, File(<<Entry(600, V1)>>), File(<<Entry(512, V1), Entry(600, V2)>>),
   File(<<Entry(512, V1), Entry(600, V1), Entry(1023, V2)>>)}

InitBucket ==
  /\ buckets = <<NewBucket(AloneId)>>
  /\ \E file \in AloneFiles :
       files = [id \in BucketIds |-> IF id = AloneId THEN file ELSE NoFile]
  /\ lastOp = NoOp
  /\ dropped = FALSE
  /\ program = "bucket"
  /\ queue = NoQueue
  /\ config = NoConfig

\* bucket i and its file take the outcome r of operation call
Settle(i, r, call) ==
  /\ buckets' = [buckets EXCEPT ![i] = r.b]
  /\ files' = [files EXCEPT ![buckets[i].id] = r.file]
  /\ lastOp' = call
  /\ UNCHANGED <<program, queue, config>>

\* push(time, value) for an entry of the given set
PushStep(entries) ==
  \E e \in entries, ioOk \in ReadOutcomes(buckets[1]) :
    \E r \in {push(buckets[1], files[AloneId], ioOk, e.time, e.value)} :
        /\ Size(r.b, r.file) <= MaxLen
        /\ Settle(1, r, Op("push", r))
        /\ dropped' = (dropped /\ Size(r.b, r.file) = 0)

\* insert(entries) for a batch of the given set
InsertStep(batches) ==
  \E entries \in batches, ioOk \in ReadOutcomes(buckets[1]) :
    \E r \in {insert(buckets[1], files[AloneId], ioOk, entries)} :
        /\ Size(r.b, r.file) <= MaxLen
        /\ Settle(1, r, Op("insert", r))
        /\ dropped' = (dropped /\ Size(r.b, r.file) = 0)

\* select({ asc, from, to }) for bounds of the given set
SelectStep(bounds) ==
  \E asc \in BOOLEAN, from \in bounds, to \in bounds,
     ioOk \in ReadOutcomes(buckets[1]) :
    \E r \in {select(buckets[1], files[AloneId], ioOk, asc, from, to)} :
        /\ Settle(1, r, Op("select", r))
        /\ UNCHANGED dropped

\* delete({ from, to }) for bounds of the given set
DeleteStep(bounds) ==
  \E from \in bounds, to \in bounds, ioOk \in ReadOutcomes(buckets[1]) :
    \E r \in {delete(buckets[1], files[AloneId], ioOk, from, to)} :
        /\ Size(r.b, r.file) <= MaxLen
        /\ Settle(1, r, Op("delete", r))
        /\ UNCHANGED dropped

BucketPush == PushStep(AloneEntries)

BucketInsert == InsertStep(AloneBatches)

BucketSelect == SelectStep(AloneBounds)

BucketDelete == DeleteStep(AloneBounds)

BucketDrop ==
  \E ioOk \in ReadOutcomes(buckets[1]) :
    \E r \in {drop(buckets[1], files[AloneId], ioOk)} :
        /\ Settle(1, r, Op("drop", r))
        /\ dropped' = (r.ok \/ dropped)

NextBucket ==
  \/ BucketPush
  \/ BucketInsert
  \/ BucketSelect
  \/ BucketDelete
  \/ BucketDrop

SpecBucket == InitBucket /\ [][NextBucket]_vars

(* ---------------------------------------------------------------------- *)
(* SpecFlush: the same bucket with its file and its timers: data          *)
(* operations, flush, and the two timers firing, each with the file       *)
(* system answering or failing.                                           *)
(* ---------------------------------------------------------------------- *)

\* entries handed to push: one stored, one out of range
FlushEntries == {Entry(600, V1), Entry(1024, V1)}

\* batches handed to insert: empty, and one whose second entry is rejected
\* after the first was stored
FlushBatches == {<<>>, <<Entry(1024, V1), Entry(512, V1)>>}

\* range bounds handed to select and delete: the first and last time of
\* the bucket, a time before it and the first time after it
FlushBounds == {0, 512, 1023, 1024}

InitFlush ==
  /\ buckets = <<NewBucket(AloneId)>>
  /\ files = [id \in BucketIds |-> NoFile]
  /\ lastOp = NoOp
  /\ dropped = FALSE
  /\ program = "store"
  /\ queue = NoQueue
  /\ config = NoConfig

FlushPush == PushStep(FlushEntries)

FlushInsert == InsertStep(FlushBatches)

FlushSelect == SelectStep(FlushBounds)

FlushDelete == DeleteStep(FlushBounds)

FlushDrop == BucketDrop

\* flush({ unload })
FlushFlush ==
  \E unload \in BOOLEAN, ioOk \in WriteOutcomes(buckets[1]) :
    \E r \in {flush(buckets[1], files[AloneId], ioOk, unload)} :
        /\ Settle(1, r, Op(IF unload THEN "unload" ELSE "flush", r))
        /\ UNCHANGED dropped

\* the auto-flush timer (1000 ms) of bucket i fires: flush({ unload: false })
AutoFlush(i) ==
  /\ buckets[i].flushTimeouts > 0
  /\ \E ioOk \in WriteOutcomes(buckets[i]) :
       \E r \in {flush(timerFired(buckets[i], FALSE),
                      files[buckets[i].id], ioOk, FALSE)} :
           /\ Settle(i, r, Op("autoFlush", r))
           /\ UNCHANGED dropped

\* the auto-unload timer (5000 ms) of bucket i fires: flush({ unload: true });
\* both timers are always started together, so the auto-flush timer has fired
AutoUnload(i) ==
  /\ buckets[i].unloadTimeouts > 0
  /\ buckets[i].flushTimeouts = 0
  /\ \E ioOk \in WriteOutcomes(buckets[i]) :
       \E r \in {flush(timerFired(buckets[i], TRUE),
                      files[buckets[i].id], ioOk, TRUE)} :
           /\ Settle(i, r, Op("autoUnload", r))
           /\ UNCHANGED dropped

NextFlush ==
  \/ FlushPush
  \/ FlushInsert
  \/ FlushSelect
  \/ FlushDelete
  \/ FlushDrop
  \/ FlushFlush
  \/ AutoFlush(1)
  \/ AutoUnload(1)

SpecFlush == InitFlush /\ [][NextFlush]_vars

(* ---------------------------------------------------------------------- *)
(* Spec: a ZektaTimeSeries (debugZekta_02) over a directory that starts   *)
(* empty: series operations, and the process ending and the directory     *)
(* being opened again. The operations follow each other within            *)
(* autoFlushTime, so that no timer fires; SpecFlush has the timers.       *)
(* ---------------------------------------------------------------------- *)

\* the most entries the series holds
MaxTotal == 2

\* the buckets whose file the file system may fail on
SeriesIds == {1, 3}

\* the file system fails on some of the given files
IoOutcomes(ids) ==
  {[id \in BucketIds |-> id \notin failing] : failing \in SUBSET ids}

\* the files a data operation would read: those of the buckets not loaded
ReadIds ==
  {id \in SeriesIds :
     \A j \in 1..Len(buckets) : buckets[j].id = id => ~buckets[j].data.defined}

\* the files a flush would write: those of the dirty buckets
WriteIds ==
  {id \in SeriesIds :
     \E j \in 1..Len(buckets) : buckets[j].id = id /\ buckets[j].requireFlush}

\* entries handed to push: one of bucket 1 and one at the first time of
\* bucket 3 (no bucket 2 lies between), and a value of the wrong length
SeriesEntries == {Entry(600, V1), Entry(1536, V2), Entry(600, BadValue)}


\* batches handed to insert: empty, over two buckets and unsorted, with
\* one entry rejected, and with two entries rejected
SeriesBatches ==
  {<<>>, <<Entry(1536, V2), Entry(600, V1)>>,
   <<Entry(1536, BadValue), Entry(600, V1)>>,
   <<Entry(1536, BadValue), Entry(600, BadValue)>>}

\* range bounds handed to select and delete: a time of bucket 1, the first
\* time of the absent bucket 2, and a time of bucket 3
SeriesBounds == {600, 1024, 1536}

\* Entries of every bucket of the list, in the order of the list
AllEntries(bs, fs) ==
  Flat([j \in 1..Len(bs) |-> Entries(bs[j], fs[bs[j].id])])

Init ==
  /\ buckets = <<>>
  /\ files = [id \in BucketIds |-> NoFile]
  /\ lastOp = NoOp
  /\ dropped = FALSE
  /\ program = "series"
  /\ queue = NoQueue
  /\ config = NoConfig

\* the series and the directory take the outcome r of operation call
SettleSeries(r, call) ==
  /\ buckets' = r.buckets
  /\ files' = r.files
  /\ lastOp' = call
  /\ UNCHANGED <<program, queue, config>>

Push ==
  \E e \in SeriesEntries, io \in IoOutcomes(ReadIds) :
    \E r \in {seriesPush(buckets, files, io, e.time, e.value)} :
        /\ Len(AllEntries(r.buckets, r.files)) <= MaxTotal
        /\ SettleSeries(r, Op("push", r))
        /\ dropped' = (dropped /\ AllEntries(r.buckets, r.files) = <<>>)

Insert ==
  \E entries \in SeriesBatches, io \in IoOutcomes(ReadIds) :
    \E r \in {seriesInsert(buckets, files, io, entries)} :
        /\ Len(AllEntries(r.buckets, r.files)) <= MaxTotal
        /\ SettleSeries(r, Op("insert", r))
        /\ dropped' = (dropped /\ AllEntries(r.buckets, r.files) = <<>>)

Select ==
  \E asc \in BOOLEAN, from \in SeriesBounds, to \in SeriesBounds,
     io \in IoOutcomes(ReadIds) :
    \E r \in {seriesSelect(buckets, files, io, asc, from, to)} :
        /\ SettleSeries(r, Op("select", r))
        /\ UNCHANGED dropped

Delete ==
  \E from \in SeriesBounds, to \in SeriesBounds, io \in IoOutcomes(ReadIds) :
    \E r \in {seriesDelete(buckets, files, io, from, to)} :
        /\ Len(AllEntries(r.buckets, r.files)) <= MaxTotal
        /\ SettleSeries(r, Op("delete", r))
        /\ UNCHANGED dropped

Drop ==
  \E io \in IoOutcomes(ReadIds) :
    \E r \in {seriesDrop(buckets, files, io)} :
        /\ SettleSeries(r, Op("drop", r))
        /\ dropped' = (r.ok \/ dropped)

Flush ==
  \E unload \in BOOLEAN, io \in IoOutcomes(WriteIds) :
    \E r \in {seriesFlush(buckets, files, io, unload)} :
        /\ SettleSeries(r, Op(IF unload THEN "unload" ELSE "flush", r))
        /\ UNCHANGED dropped

\* the process ends and ZektaTimeSeries.open is called on the directory
Reopen ==
  /\ buckets' = open(files)
  /\ lastOp' = [NoOp EXCEPT !.op = "open"]
  /\ dropped' = FALSE
  /\ UNCHANGED <<files, program, queue, config>>

Next ==
  \/ Push
  \/ Insert
  \/ Select
  \/ Delete
  \/ Drop
  \/ Flush
  \/ Reopen

Spec == Init /\ [][Next]_vars

(* ---------------------------------------------------------------------- *)
(* SpecNaN: the same series, whose caller also pushes at a time that is   *)
(* not a number: the series makes a bucket of the id NaN for it.  The     *)
(* file system does not fail but for drop.                                *)
(* ---------------------------------------------------------------------- *)

\* the most buckets the list of the series holds
MaxBuckets == 3

\* entries handed to push: two of bucket 1, one of bucket 3, and one whose
\* time is NaN
NaNEntries ==
  {Entry(600, V1), Entry(700, V2), Entry(1536, V2), Entry(NaN, V1)}

PushNaN ==
  \E e \in NaNEntries, io \in IoOutcomes({}) :
    \E r \in {seriesPush(buckets, files, io, e.time, e.value)} :
        /\ Len(AllEntries(r.buckets, r.files)) <= MaxTotal
        /\ Len(r.buckets) <= MaxBuckets
        /\ SettleSeries(r, Op("push", r))
        /\ dropped' = (dropped /\ AllEntries(r.buckets, r.files) = <<>>)

\* select in either direction over the buckets 1 to 3, and flush(), the
\* file system not failing
SelectNaN ==
  \E asc \in BOOLEAN, io \in IoOutcomes({}) :
    \E r \in {seriesSelect(buckets, files, io, asc, 600, 1536)} :
        /\ SettleSeries(r, Op("select", r))
        /\ UNCHANGED dropped

FlushNaN ==
  \E io \in IoOutcomes({}) :
    \E r \in {seriesFlush(buckets, files, io, FALSE)} :
        /\ SettleSeries(r, Op("flush", r))
        /\ UNCHANGED dropped

NextNaN ==
  \/ PushNaN
  \/ SelectNaN
  \/ Drop
  \/ FlushNaN
  \/ Reopen

SpecNaN == Init /\ [][NextNaN]_vars

(* ---------------------------------------------------------------------- *)
(* SpecQueue: a ZektaTimeBucket, or a ZektaTimeSeries over a directory    *)
(* that starts empty, whose caller does not await the promises (as        *)
(* debugZekta_03_00): operations are submitted while earlier ones are     *)
(* pending or suspended in file I/O, and the timers of the bucket fire.   *)
(* queue.chain holds the tasks chained by #run whose        *)
(* promise has not settled, in submission order.  Of the settled ones     *)
(* queue keeps how the last promise of the chain settled (settledAs),     *)
(* the number of the operation that settled last (settledId), whether     *)
(* its name and the pushes it was submitted after (settledOp,             *)
(* settledAfter), whether its task ran (ran), the pushes that were        *)
(* accepted (acked) and the pushes submitted since the last insert,       *)
(* delete or drop (burst).                                                *)
(* ---------------------------------------------------------------------- *)

\* the most operations the caller submits
MaxOps == 3

\* a promise chain that runs the task only when the promise before it is
\* fulfilled: this.#queue.then(task)
runOnFulfilled(previous) == IF previous = "rejected" THEN "skip" ELSE "task"

\* #run: this.#queue.then(task, task): what the promise chained to one that
\* settled as previous does
run(previous) == "task"

\* a queue whose tasks do not wait for each other
mayStartAtOnce(chain, k) == TRUE

\* #run: the task at position k of the unsettled promises of the chain may
\* start once every promise before it has settled
mayStart(chain, k) == k = 1

\* a call of a bucket operation: push has its entry in entries
QueueCall(op, asc, from, to, unload, entries) ==
  [op |-> op, asc |-> asc, from |-> from, to |-> to, unload |-> unload,
   entries |-> entries]

\* the task #run chains for operation number id; after: the pushes of the
\* burst it was submitted after; snapshot: the bytes handed to writeFile
Task(id, call, after) ==
  [id |-> id, call |-> call, state |-> "pending", after |-> after,
   snapshot |-> <<>>]

\* the operations the caller submits: an accepted and a rejected push, an
\* insert rejected after it stored an entry, a select of the whole bucket
\* and one beyond it, a delete, a drop, and the two flushes
QueueCalls ==
  {QueueCall("push", TRUE, 0, 0, FALSE, <<Entry(600, V1)>>),
   QueueCall("push", TRUE, 0, 0, FALSE, <<Entry(1024, V1)>>),
   QueueCall("insert", TRUE, 0, 0, FALSE, <<Entry(1024, V1), Entry(512, V1)>>),
   QueueCall("select", TRUE, 512, 1023, FALSE, <<>>),
   QueueCall("select", TRUE, 1024, 1024, FALSE, <<>>),
   QueueCall("delete", TRUE, 600, 600, FALSE, <<>>),
   QueueCall("drop", TRUE, 0, 0, FALSE, <<>>),
   QueueCall("flush", TRUE, 0, 0, FALSE, <<>>),
   QueueCall("flush", TRUE, 0, 0, TRUE, <<>>)}

InitQueue ==
  /\ \/ buckets = <<NewBucket(AloneId)>> /\ program = "queue"
     \/ buckets = <<>> /\ program = "series"
  /\ files = [id \in BucketIds |-> NoFile]
  /\ lastOp = NoOp
  /\ dropped = FALSE
  /\ queue = NoQueue
  /\ config = NoConfig

\* select and delete return before #runDataOperation when the range lies
\* outside the bucket
returnsAtOnce(b, call) ==
  /\ call.op \in {"select", "delete"}
  /\ \/ Ordered(call.from, b.to) /\ call.from >= b.to
     \/ Ordered(call.to, b.from) /\ call.to < b.from

\* the chain without the task at position k
Without(chain, k) == SubSeq(chain, 1, k - 1) \o SubSeq(chain, k + 1, Len(chain))

\* the burst of pushes after the submission of an operation
burstAfter(burst, id, op) ==
  IF op = "push" THEN burst \cup {id}
  ELSE IF op \in {"select", "flush"} THEN burst ELSE {}

\* what queue remembers once the promise of task t has settled
settled(q, t, ran) ==
  [q EXCEPT !.settledId = t.id, !.settledOp = t.call.op,
            !.settledAfter = t.after, !.ran = ran]

\* the same for the task at position k of the chain, with outcome r
settledTask(q, k, r, ran) ==
  [settled(q, q.chain[k], ran) EXCEPT
     !.chain = Without(q.chain, k),
     !.settledAs = IF r.ok THEN "fulfilled" ELSE "rejected",
     !.acked = IF q.chain[k].call.op = "push" /\ r.ok
               THEN @ \cup {[id |-> q.chain[k].id,
                             entry |-> q.chain[k].call.entries[1]]}
               ELSE @]

\* the caller calls an operation of the bucket and does not await it
Submit ==
  /\ program = "queue"
  /\ queue.calls < MaxOps
  /\ \E call \in QueueCalls :
       LET id == queue.next
           q == [queue EXCEPT !.next = @ + 1, !.calls = @ + 1,
                              !.burst = burstAfter(@, id, call.op)]
       IN  IF returnsAtOnce(buckets[1], call)
           THEN /\ queue' = settled(q, Task(id, call, queue.burst), TRUE)
                /\ lastOp' = [op |-> call.op, ok |-> TRUE, value |-> <<>>,
                              error |-> ""]
                /\ UNCHANGED <<buckets, files, dropped, program, config>>
           ELSE /\ queue' = [q EXCEPT
                               !.chain = Append(@, Task(id, call, queue.burst))]
                /\ UNCHANGED <<buckets, files, lastOp, dropped, program, config>>

\* a timer of the bucket fires: its callback calls this.flush({ unload })
TimerFires(isUnload) ==
  /\ program = "queue"
  /\ IF isUnload
     THEN buckets[1].unloadTimeouts > 0 /\ buckets[1].flushTimeouts = 0
     ELSE buckets[1].flushTimeouts > 0
  /\ buckets' = [buckets EXCEPT ![1] = timerFired(@, isUnload)]
  /\ queue' = [queue EXCEPT
                 !.next = @ + 1,
                 !.chain = Append(@, Task(queue.next,
                             QueueCall(IF isUnload THEN "autoUnload"
                                       ELSE "autoFlush",
                                       TRUE, 0, 0, isUnload, <<>>), {}))]
  /\ UNCHANGED <<files, lastOp, dropped, program, config>>

\* the promise before a task has settled and the task is not run: its
\* promise settles as the one before it did
Skip(k) ==
  /\ queue' = settledTask(queue, k, [ok |-> FALSE], FALSE)
  /\ lastOp' = [op |-> queue.chain[k].call.op, ok |-> FALSE, value |-> <<>>,
                error |-> lastOp.error]
  /\ UNCHANGED <<buckets, files, dropped, program, config>>

\* flush, called by the caller or by one of the two timers
FlushOps == {"flush", "autoFlush", "autoUnload"}

\* the task of a flush starts on a bucket that requires no flush: it ends
\* without awaiting
FlushClean(k) ==
  \E r \in {flush(buckets[1], files[AloneId], TRUE,
                  queue.chain[k].call.unload)} :
    /\ buckets' = [buckets EXCEPT ![1] = r.b]
    /\ queue' = settledTask(queue, k, r, TRUE)
    /\ lastOp' = Op(queue.chain[k].call.op, r)
    /\ UNCHANGED <<files, dropped, program, config>>

\* the promise before a task of the chain has settled: the task starts.  A
\* data operation stops the two timers and awaits #loadData; a flush of a
\* bucket that requires one awaits mkdir
Start ==
  /\ program = "queue"
  /\ \E k \in 1..Len(queue.chain) :
       /\ queue.chain[k].state = "pending"
       /\ mayStart(queue.chain, k)
       /\ IF run(queue.settledAs) = "skip" THEN Skip(k)
          ELSE IF queue.chain[k].call.op \notin FlushOps
          THEN /\ buckets' = [buckets EXCEPT ![1] = stopTimers(@)]
               /\ queue' = [queue EXCEPT !.chain[k].state = "running"]
               /\ UNCHANGED <<files, lastOp, dropped, program, config>>
          ELSE IF buckets[1].requireFlush
          THEN /\ queue' = [queue EXCEPT !.chain[k].state = "mkdir"]
               /\ UNCHANGED <<buckets, files, lastOp, dropped, program, config>>
          ELSE FlushClean(k)

\* the outcome of the task of a data operation
dataOutcome(b, file, ioOk, call) ==
  CASE call.op = "push" ->
         push(b, file, ioOk, call.entries[1].time, call.entries[1].value)
    [] call.op = "insert" -> insert(b, file, ioOk, call.entries)
    [] call.op = "select" ->
         select(b, file, ioOk, call.asc, call.from, call.to)
    [] call.op = "delete" -> delete(b, file, ioOk, call.from, call.to)
    [] call.op = "drop" -> drop(b, file, ioOk)

\* the task of a data operation ends: the data is loaded (the read fails or
\* not), the operation made, the timers started, and its promise settles
EndData ==
  /\ program = "queue"
  /\ \E k \in 1..Len(queue.chain), ioOk \in ReadOutcomes(buckets[1]) :
       /\ queue.chain[k].state = "running"
       /\ \E r \in {dataOutcome(buckets[1], files[AloneId], ioOk,
                                queue.chain[k].call)} :
            /\ buckets' = [buckets EXCEPT ![1] = r.b]
            /\ queue' = settledTask(queue, k, r, TRUE)
            /\ lastOp' = Op(queue.chain[k].call.op, r)
            /\ UNCHANGED <<files, dropped, program, config>>

\* mkdir ends (it fails or not): rm or writeFile is called with the bytes
\* the bucket holds now
Write ==
  /\ program = "queue"
  /\ \E k \in 1..Len(queue.chain), ioOk \in BOOLEAN :
       /\ queue.chain[k].state = "mkdir"
       /\ IF ioOk
          THEN /\ queue' = [queue EXCEPT
                              !.chain[k].state = "write",
                              !.chain[k].snapshot = buckets[1].data.bytes]
               /\ UNCHANGED <<buckets, files, lastOp, dropped, program, config>>
          ELSE \E r \in {flush(buckets[1], files[AloneId], FALSE,
                               queue.chain[k].call.unload)} :
                 /\ queue' = settledTask(queue, k, r, TRUE)
                 /\ lastOp' = Op(queue.chain[k].call.op, r)
                 /\ UNCHANGED <<buckets, files, dropped, program, config>>

\* rm or writeFile ends (it fails or not): the flush clears #requireFlush,
\* unloads when asked, and its promise settles
EndFlush ==
  /\ program = "queue"
  /\ \E k \in 1..Len(queue.chain), ioOk \in BOOLEAN :
       /\ queue.chain[k].state = "write"
       /\ \E r \in {flush(buckets[1], files[AloneId], ioOk,
                          queue.chain[k].call.unload)} :
            /\ buckets' = [buckets EXCEPT ![1] = r.b]
            /\ files' = [files EXCEPT ![AloneId] =
                           flush([buckets[1] EXCEPT !.data.bytes =
                                    queue.chain[k].snapshot],
                                 files[AloneId], ioOk,
                                 queue.chain[k].call.unload).file]
            /\ queue' = settledTask(queue, k, r, TRUE)
            /\ lastOp' = Op(queue.chain[k].call.op, r)
            /\ UNCHANGED <<dropped, program, config>>

\* the operations the caller submits to the series: an accepted and a
\* rejected push, an insert rejected after it stored an entry, a select, a
\* delete, a drop, and the two flushes
SeriesCalls ==
  {QueueCall("push", TRUE, 0, 0, FALSE, <<Entry(600, V1)>>),
   QueueCall("push", TRUE, 0, 0, FALSE, <<Entry(600, BadValue)>>),
   QueueCall("insert", TRUE, 0, 0, FALSE,
             <<Entry(1536, BadValue), Entry(600, V1)>>),
   QueueCall("select", TRUE, 600, 1536, FALSE, <<>>),
   QueueCall("delete", TRUE, 600, 600, FALSE, <<>>),
   QueueCall("drop", TRUE, 0, 0, FALSE, <<>>),
   QueueCall("flush", TRUE, 0, 0, FALSE, <<>>),
   QueueCall("flush", TRUE, 0, 0, TRUE, <<>>)}

\* the caller calls an operation of the series and does not await it: every
\* one of them is handed to #run
SubmitSeries ==
  /\ program = "series"
  /\ queue.calls < MaxOps
  /\ \E call \in SeriesCalls :
       queue' = [queue EXCEPT
                   !.next = @ + 1, !.calls = @ + 1,
                   !.burst = burstAfter(@, queue.next, call.op),
                   !.chain = Append(@, Task(queue.next, call, queue.burst))]
  /\ UNCHANGED <<buckets, files, lastOp, dropped, program, config>>

\* the promise before a task of the series has settled: the task starts
StartSeries ==
  /\ program = "series"
  /\ \E k \in 1..Len(queue.chain) :
       /\ queue.chain[k].state = "pending"
       /\ mayStart(queue.chain, k)
       /\ IF run(queue.settledAs) = "skip" THEN Skip(k)
          ELSE /\ queue' = [queue EXCEPT !.chain[k].state = "running"]
               /\ UNCHANGED <<buckets, files, lastOp, dropped, program, config>>

\* the outcome of the task of an operation of the series
seriesOutcome(bs, fs, io, call) ==
  CASE call.op = "push" ->
         seriesPush(bs, fs, io, call.entries[1].time, call.entries[1].value)
    [] call.op = "insert" -> seriesInsert(bs, fs, io, call.entries)
    [] call.op = "select" ->
         seriesSelect(bs, fs, io, call.asc, call.from, call.to)
    [] call.op = "delete" -> seriesDelete(bs, fs, io, call.from, call.to)
    [] call.op = "drop" -> seriesDrop(bs, fs, io)
    [] call.op = "flush" -> seriesFlush(bs, fs, io, call.unload)

\* the task of an operation of the series ends: the operations of the
\* buckets it called have settled (the file system failed on some files or
\* on none), and its promise settles
EndSeries ==
  /\ program = "series"
  /\ \E k \in 1..Len(queue.chain) :
       /\ queue.chain[k].state = "running"
       /\ \E io \in IoOutcomes(IF queue.chain[k].call.op = "flush"
                               THEN WriteIds ELSE ReadIds) :
            \E r \in {seriesOutcome(buckets, files, io,
                                    queue.chain[k].call)} :
              /\ buckets' = r.buckets
              /\ files' = r.files
              /\ queue' = settledTask(queue, k, r, TRUE)
              /\ lastOp' = Op(queue.chain[k].call.op, r)
              /\ UNCHANGED <<dropped, program, config>>

NextQueue ==
  \/ Submit
  \/ SubmitSeries
  \/ StartSeries
  \/ EndSeries
  \/ TimerFires(FALSE)
  \/ TimerFires(TRUE)
  \/ Start
  \/ EndData
  \/ Write
  \/ EndFlush

SpecQueue == InitQueue /\ [][NextQueue]_vars

\* SpecQueueFair: the same program in a runtime that goes on: a timer that
\* is armed fires (setTimeout), a chained task whose turn has come starts
\* (the promise job queue), and the file I/O of a flush ends
SpecQueueFair ==
  /\ SpecQueue
  /\ WF_vars(TimerFires(FALSE))
  /\ WF_vars(TimerFires(TRUE))
  /\ WF_vars(Start)
  /\ WF_vars(Write)
  /\ WF_vars(EndFlush)

(* ---------------------------------------------------------------------- *)
(* SpecFanOut: operations of a ZektaTimeSeries called with no await, the  *)
(* promises of the bucket operations each of them calls settling one by   *)
(* one, in any order across buckets.  queue.chain holds the tasks chained *)
(* by #run of the series, queue.subs the promises of the bucket           *)
(* operations called and not yet collected: the task that called each,    *)
(* the id of its bucket, the call, and how it settled.                    *)
(* ---------------------------------------------------------------------- *)

\* the most operations the caller submits to the series
MaxFanOuts == 3

\* the promise of a bucket operation called by the task of number task
Sub(task, id, call) ==
  [task |-> task, id |-> id, call |-> call, status |-> "pending",
   value |-> <<>>, error |-> ""]

NoFanOut ==
  [next |-> 1, calls |-> 0, chain |-> <<>>, settledAs |-> "fulfilled",
   subs |-> <<>>]

\* the operations submitted: a push, a rejected push, an insert into two
\* buckets whose first push is rejected, a select and a delete over both
\* buckets, a drop, and a flush
FanOutCalls ==
  {QueueCall("push", TRUE, 0, 0, FALSE, <<Entry(600, V1)>>),
   QueueCall("push", TRUE, 0, 0, FALSE, <<Entry(1536, BadValue)>>),
   QueueCall("insert", TRUE, 0, 0, FALSE,
             <<Entry(1536, V2), Entry(600, BadValue)>>),
   QueueCall("select", FALSE, 600, 1536, FALSE, <<>>),
   QueueCall("delete", TRUE, 600, 1536, FALSE, <<>>),
   QueueCall("drop", TRUE, 0, 0, FALSE, <<>>),
   QueueCall("flush", TRUE, 0, 0, TRUE, <<>>)}

InitFanOut ==
  /\ buckets = <<>>
  /\ files = [id \in BucketIds |-> NoFile]
  /\ lastOp = NoOp
  /\ dropped = FALSE
  /\ program = "fanout"
  /\ queue = NoFanOut
  /\ config = NoConfig

RECURSIVE getBuckets(_, _)
\* the list after this.#getBucket(time) for each entry in turn
getBuckets(bs, entries) ==
  IF entries = <<>> THEN bs
  ELSE getBuckets(getBucket(bs, Head(entries).time).buckets, Tail(entries))

\* the bucket operations the task of a series operation calls, in the order
\* it calls them, and the bucket list it leaves
dispatched(bs, task, call) ==
  IF call.op = "push"
  THEN [buckets |-> getBuckets(bs, call.entries),
        subs |-> <<Sub(task, getIdFromTime(call.entries[1].time), call)>>]
  ELSE IF call.op = "insert"
  THEN LET sorted == sortTimeSeriesEntries(call.entries)
       IN  [buckets |-> getBuckets(bs, sorted),
            subs |-> [k \in 1..Len(sorted) |->
                        Sub(task, getIdFromTime(sorted[k].time),
                            [call EXCEPT !.op = "push",
                                         !.entries = <<sorted[k]>>])]]
  ELSE LET indexes ==
             IF call.op \in {"select", "delete"}
             THEN indexesBetween(
                    getTimeRangeBucketIndexesInArray(bs, call.from, call.to),
                    call.asc)
             ELSE allIndexes(bs)
       IN  [buckets |-> bs,
            subs |-> [k \in 1..Len(indexes) |->
                        Sub(task, bs[indexes[k] + 1].id, call)]]

\* Promise.all: settled once a promise is rejected or all are fulfilled
all(results) ==
  \/ \E k \in 1..Len(results) : results[k].status = "rejected"
  \/ \A k \in 1..Len(results) : results[k].status = "fulfilled"

\* Promise.allSettled: settled once every promise is
allSettled(results) ==
  \A k \in 1..Len(results) : results[k].status # "pending"

\* the promises the task of number task called
subsOf(subs, task) == SelectSeq(subs, LAMBDA sub : sub.task = task)

\* the caller calls an operation of the series and does not await it
SubmitFanOut ==
  /\ program = "fanout"
  /\ queue.calls < MaxFanOuts
  /\ \E call \in FanOutCalls :
       queue' = [queue EXCEPT
                   !.next = @ + 1, !.calls = @ + 1,
                   !.chain = Append(@, Task(queue.next, call, {}))]
  /\ UNCHANGED <<buckets, files, lastOp, dropped, program, config>>

\* the task of a series operation starts: it finds or creates the buckets
\* and calls their operations, which are chained on the buckets' queues
StartFanOut ==
  /\ program = "fanout"
  /\ \E k \in 1..Len(queue.chain) :
       /\ queue.chain[k].state = "pending"
       /\ mayStart(queue.chain, k)
       /\ run(queue.settledAs) = "task"
       /\ \E d \in {dispatched(buckets, queue.chain[k].id,
                                queue.chain[k].call)} :
            /\ buckets' = d.buckets
            /\ queue' = [queue EXCEPT !.chain[k].state = "running",
                                      !.subs = @ \o d.subs]
       /\ UNCHANGED <<files, lastOp, dropped, program, config>>

\* bucket, file and promise j after the bucket operation ended with r
SubSettled(j, r) ==
  /\ buckets' = [i \in 1..Len(buckets) |->
                   IF buckets[i].id = queue.subs[j].id THEN r.b
                   ELSE buckets[i]]
  /\ files' = [files EXCEPT ![queue.subs[j].id] = r.file]
  /\ queue' = [queue EXCEPT
                 !.subs[j].status = IF r.ok THEN "fulfilled" ELSE "rejected",
                 !.subs[j].value = r.value,
                 !.subs[j].error = r.error]
  /\ UNCHANGED <<lastOp, dropped, program, config>>

\* a bucket operation that was called runs and its promise settles; the
\* operations of one bucket run in the order they were called (its #run)
SubSettles ==
  /\ program = "fanout"
  /\ \E j \in 1..Len(queue.subs), i \in 1..Len(buckets), ioOk \in BOOLEAN :
       /\ queue.subs[j].status = "pending"
       /\ buckets[i].id = queue.subs[j].id
       /\ \A h \in 1..(j - 1) :
            queue.subs[h].id = queue.subs[j].id
              => queue.subs[h].status # "pending"
       /\ IF queue.subs[j].call.op = "flush"
          THEN /\ ioOk \in WriteOutcomes(buckets[i])
               /\ \E r \in {flush(buckets[i], files[buckets[i].id], ioOk,
                                    queue.subs[j].call.unload)} :
                    SubSettled(j, r)
          ELSE /\ ioOk \in ReadOutcomes(buckets[i])
               /\ \E r \in {dataOutcome(buckets[i], files[buckets[i].id],
                                          ioOk, queue.subs[j].call)} :
                    SubSettled(j, r)

\* the promises called by the running task are settled as Promise.allSettled
\* requires: handlePromiseAllSettledResult makes the outcome of the task,
\* and its promise settles
SettleFanOut ==
  /\ program = "fanout"
  /\ queue.chain # <<>>
  /\ queue.chain[1].state = "running"
  /\ allSettled(subsOf(queue.subs, queue.chain[1].id))
  /\ \E r \in {handlePromiseAllSettledResult(
                  [k \in 1..Len(subsOf(queue.subs, queue.chain[1].id)) |->
                     [ok |-> subsOf(queue.subs, queue.chain[1].id)[k].status
                               # "rejected",
                      value |-> subsOf(queue.subs, queue.chain[1].id)[k].value,
                      error |-> subsOf(queue.subs,
                                       queue.chain[1].id)[k].error]])} :
       /\ queue' = [queue EXCEPT
                      !.chain = Tail(@),
                      !.settledAs = IF r.ok THEN "fulfilled" ELSE "rejected",
                      !.subs = SelectSeq(@, LAMBDA sub :
                                 sub.task # queue.chain[1].id
                                   \/ sub.status = "pending")]
       /\ lastOp' = [op |-> queue.chain[1].call.op, ok |-> r.ok,
                     value |-> IF queue.chain[1].call.op = "select"
                               THEN Flat(r.value) ELSE <<>>,
                     error |-> r.error]
  /\ UNCHANGED <<buckets, files, dropped, program, config>>

NextFanOut ==
  \/ SubmitFanOut
  \/ StartFanOut
  \/ SubSettles
  \/ SettleFanOut

SpecFanOut == InitFanOut /\ [][NextFanOut]_vars

(* ---------------------------------------------------------------------- *)
(* SpecSpan: #getTimeRangeBucketIndexesInArray applied, for every range,  *)
(* to every bucket list a series can hold over four ids: sorted by id,    *)
(* strictly ascending, sparse.                                            *)
(* ---------------------------------------------------------------------- *)

\* the bounds of the ranges: one time in each of the buckets 0 to 3
SpanTimes == {100, 600, 1100, 1600}

InitSpan ==
  /\ \E ids \in SUBSET (0..3) : buckets = sortFnc(ids)
  /\ files = [id \in BucketIds |-> NoFile]
  /\ lastOp = NoOp
  /\ dropped = FALSE
  /\ program = "span"
  /\ queue = NoQueue
  /\ config = NoConfig

\* the span is computed for the range [from, to]
Span ==
  /\ \E from \in SpanTimes, to \in SpanTimes :
       \E x \in {getTimeRangeBucketIndexesInArray(buckets, from, to)} :
         lastOp' = [op |-> "span", ok |-> TRUE,
                    value |-> <<from, to, x.from, x.to>>, error |-> ""]
  /\ UNCHANGED <<buckets, files, dropped, program, queue, config>>

SpecSpan == InitSpan /\ [][Span]_vars

(* ---------------------------------------------------------------------- *)
(* SpecSearch: binarySearch called on sorted collections of numbers, with *)
(* the callback of its documentation: collection[index] - value.          *)
(* ---------------------------------------------------------------------- *)

\* the most items of a collection
MaxItems == 4

\* the items of the collections, and the values searched: the items, and
\* values below, between and above them
Items == {2, 4, 6}

Keys == 1..7

\* the sorted collections of at most MaxItems items
SortedCollections ==
  UNION {{c \in [1..n -> Items] : \A i \in 1..(n - 1) : c[i] <= c[i + 1]} :
           n \in 0..MaxItems}

InitSearch ==
  /\ buckets = <<>>
  /\ files = [id \in BucketIds |-> NoFile]
  /\ lastOp = NoOp
  /\ dropped = FALSE
  /\ program = "search"
  /\ queue = NoQueue
  /\ config = NoConfig

\* binarySearch(collection.length, (index) => collection[index] - value)
Search ==
  /\ \E collection \in SortedCollections, value \in Keys :
       lastOp' = [op |-> "search", ok |-> TRUE,
                  value |-> <<collection, value,
                              binarySearch(Len(collection),
                                [index \in 0..(Len(collection) - 1) |->
                                   collection[index + 1] - value])>>,
                  error |-> ""]
  /\ UNCHANGED <<buckets, files, dropped, program, queue, config>>

SpecSearch == InitSearch /\ [][Search]_vars

(* ---------------------------------------------------------------------- *)
(* SpecResize: a ResizeableBuffer, created empty or over the bytes of a   *)
(* file, resized again and again.  lastOp.value holds the buffer before   *)
(* the last call, the length asked for, and the buffer after it.          *)
(* ---------------------------------------------------------------------- *)

\* the lengths asked for: none, one and two entries, the initial capacity,
\* one entry more, and 1.5 GiB
ResizeLengths == {0, 16, 32, 256, 272, 3 * 2 ^ 29}

\* the contents of the files a buffer is created over
ResizeFiles ==
  {<<>>, <<Entry(600, V1)>>, <<Entry(512, V1), Entry(600, V2)>>}

InitResize ==
  /\ buckets = <<>>
  /\ files = [id \in BucketIds |-> NoFile]
  /\ \E buf \in {NewBuffer} \cup {BufferOfFile(c) : c \in ResizeFiles} :
       lastOp = [op |-> "new", ok |-> TRUE, value |-> <<buf, 0, buf>>,
                 error |-> ""]
  /\ dropped = FALSE
  /\ program = "resize"
  /\ queue = NoQueue
  /\ config = NoConfig

\* resize(newLength) on the buffer the last call left
Resize ==
  /\ \E newLength \in ResizeLengths :
       \E r \in {resize(lastOp.value[3], newLength)} :
         lastOp' = [op |-> "resize", ok |-> r.ok,
                    value |-> <<lastOp.value[3], newLength, r.buf>>,
                    error |-> IF r.ok THEN "" ELSE "Error"]
  /\ UNCHANGED <<buckets, files, dropped, program, queue, config>>

SpecResize == InitResize /\ [][Resize]_vars

(* ---------------------------------------------------------------------- *)
(* SpecOpen: ZektaTimeSeries.open called, again and again, on a directory *)
(* that holds some config file or none and some bucket files or none,     *)
(* with every choice of options and every answer of the file system.      *)
(* ---------------------------------------------------------------------- *)

\* the config files an earlier session may have left: none, the one of
\* this series, one of another value length, one of another version
ConfigFiles ==
  {NoConfig, ConfigV1(1, valueByteLength), ConfigV1(1, timeByteLength + 8),
   ConfigV1(2, valueByteLength)}

\* the options of open (valueByteLength absent, the one of this series or
\* another one; create) and the answers of the file system
OpenOptions ==
  [valueByteLength : {[defined |-> FALSE, value |-> 0],
                      [defined |-> TRUE, value |-> valueByteLength],
                      [defined |-> TRUE, value |-> timeByteLength + 8]},
   create : BOOLEAN, read : BOOLEAN, write : BOOLEAN, readdir : BOOLEAN,
   names : BOOLEAN]

InitOpen ==
  /\ buckets = <<>>
  /\ \E present \in SUBSET SeriesIds :
       files = [id \in BucketIds |->
                  IF id \in present THEN File(<<Entry(getTimeFromId(id), V1)>>)
                  ELSE NoFile]
  /\ lastOp = NoOp
  /\ dropped = FALSE
  /\ program = "open"
  /\ queue = NoQueue
  /\ config \in ConfigFiles

\* ZektaTimeSeries.open(options): lastOp.value holds the options of the
\* call
Open ==
  \E o \in OpenOptions :
    \E r \in {openSeries(config, files, o)} :
      /\ config' = r.config
      /\ buckets' = r.buckets
      /\ lastOp' = [op |-> "open", ok |-> r.ok, value |-> <<o>>,
                    error |-> r.error]
      /\ UNCHANGED <<files, dropped, program, queue>>

SpecOpen == InitOpen /\ [][Open]_vars

(* ---------------------------------------------------------------------- *)
(* SpecAll: any of the three programs.                                    *)
(* ---------------------------------------------------------------------- *)

InitAll == InitBucket \/ InitFlush \/ Init

NextAll ==
  \/ program = "bucket" /\ NextBucket
  \/ program = "store" /\ NextFlush
  \/ program = "series" /\ Next

SpecAll == InitAll /\ [][NextAll]_vars

(* ---------------------------------------------------------------------- *)
(* The operations of the program at hand, on a bucket list bs over the    *)
(* directory fs, with the file system answering: those of the bucket for  *)
(* a program that holds one bucket, those of the series otherwise.        *)
(* ---------------------------------------------------------------------- *)

AllOk == [id \in BucketIds |-> TRUE]

\* the outcome r of an operation of the one bucket of bs
OfBucket(bs, fs, r) ==
  [buckets |-> <<r.b>>, files |-> [fs EXCEPT ![bs[1].id] = r.file],
   ok |-> r.ok, value |-> r.value, error |-> r.error]

ProgramPush(bs, fs, e) ==
  IF program = "series" THEN seriesPush(bs, fs, AllOk, e.time, e.value)
  ELSE OfBucket(bs, fs, push(bs[1], fs[bs[1].id], TRUE, e.time, e.value))

ProgramSelect(bs, fs, asc, from, to) ==
  IF program = "series" THEN seriesSelect(bs, fs, AllOk, asc, from, to)
  ELSE OfBucket(bs, fs, select(bs[1], fs[bs[1].id], TRUE, asc, from, to))

ProgramDelete(bs, fs, from, to) ==
  IF program = "series" THEN seriesDelete(bs, fs, AllOk, from, to)
  ELSE OfBucket(bs, fs, delete(bs[1], fs[bs[1].id], TRUE, from, to))

\* the entries the program can be handed, and the range bounds
ProgramEntries ==
  IF program = "series" THEN SeriesEntries
  ELSE IF program = "store" THEN FlushEntries ELSE AloneEntries

ProgramBounds ==
  IF program = "series" THEN SeriesBounds
  ELSE IF program = "store" THEN FlushBounds ELSE AloneBounds

\* the range of a select() or delete() without bounds, as far as the
\* buckets the model looks at reach
FirstTime == getTimeFromId(0)

LastTime == getTimeFromId(4) - 1

TimesOf(s) == {s[k].time : k \in 1..Len(s)}

(* ---------------------------------------------------------------------- *)
(* Claims                                                                 *)
(* ---------------------------------------------------------------------- *)

\* C1 (I1, sortedness): whatever push, insert, delete and drop operations a
\* bucket took, accepted or rejected, the entries it has loaded are in
\* non-decreasing order of time.
C1_SortedByTime ==
  \A j \in 1..Len(buckets) :
    buckets[j].data.defined => IsSorted(buckets[j].data.bytes)

\* the entries of bucket j of the list
EntriesOf(j) == Entries(buckets[j], files[buckets[j].id])

\* C2: every entry a series stores is held by the bucket whose id is
\* floor(time / 512), in memory and in the files: a bucket b only holds
\* entries with b.from <= time < b.to.
C2_EntriesInTheirBucket ==
  /\ \A j \in 1..Len(buckets) :
       \A k \in 1..Len(EntriesOf(j)) :
         /\ EntriesOf(j)[k].time \div timeRange = buckets[j].id
         /\ buckets[j].from <= EntriesOf(j)[k].time
         /\ EntriesOf(j)[k].time < buckets[j].to
  /\ \A id \in BucketIds :
       \A k \in 1..Len(files[id].content) :
         files[id].content[k].time \div timeRange = id

\* an insert over two buckets was accepted and each holds its entry
C2_Witness ==
  /\ program = "series"
  /\ lastOp.op = "insert" /\ lastOp.ok
  /\ Len(buckets) = 2
  /\ EntriesOf(1) = <<Entry(600, V1)>>
  /\ EntriesOf(2) = <<Entry(1536, V2)>>

\* C3: when the stored entries are those of pushes with pairwise distinct
\* times (sorted, each time once), an accepted push of a further time
\* followed by a full-range ascending select returns exactly the pushed
\* entries, each once, sorted by time, wherever the new time falls; on one
\* bucket and on a series.
C3_PushedThenSelected ==
  \A stored \in {AllEntries(buckets, files)} :
    (IsSorted(stored) /\ Cardinality(TimesOf(stored)) = Len(stored)) =>
      \A e \in {x \in ProgramEntries : x.time \notin TimesOf(stored)} :
        \A r \in {ProgramPush(buckets, files, e)} :
          r.ok =>
            \A q \in {ProgramSelect(r.buckets, r.files, TRUE,
                                    FirstTime, LastTime)} :
              q.ok /\ q.value = insertSorted(e, stored)

\* a series that pushed into two buckets and wrote no file returned both
\* entries to a select
C3_Witness ==
  /\ program = "series"
  /\ \A id \in BucketIds : ~files[id].exists
  /\ lastOp.op = "select" /\ lastOp.ok
  /\ lastOp.value = <<Entry(600, V1), Entry(1536, V2)>>
  /\ AllEntries(buckets, files) = lastOp.value

\* C4: for every range a <= b and every content, select({ from: a, to: b })
\* returns every stored entry with a <= time <= b and no other entry, both
\* ends included, in either direction; on one bucket and on a series.
C4_SelectInRange ==
  \A a \in ProgramBounds, b \in ProgramBounds, asc \in BOOLEAN :
    a <= b =>
      \A q \in {ProgramSelect(buckets, files, asc, a, b)} :
        /\ q.ok
        /\ SameMultiset(q.value,
                        SelectInRange(AllEntries(buckets, files), a, b))

\* every bucket holds its entries in non-decreasing order of time
SortedContent == \A j \in 1..Len(buckets) : IsSorted(EntriesOf(j))

\* C4 on contents in order of time: the selected entries are those of the
\* range, in the order they are stored when ascending.
C4_OnSortedContent ==
  SortedContent =>
    /\ C4_SelectInRange
    /\ \A a \in ProgramBounds, b \in ProgramBounds :
         a <= b =>
           ProgramSelect(buckets, files, TRUE, a, b).value
             = SelectInRange(AllEntries(buckets, files), a, b)

\* C5: in every state and for every range, select with asc: false settles
\* as select with asc: true does and returns exactly the reverse sequence;
\* on one bucket and on a series, with entries of equal times.
C5_DescendingIsReverse ==
  \A a \in ProgramBounds, b \in ProgramBounds :
    \A up \in {ProgramSelect(buckets, files, TRUE, a, b)} :
      \A down \in {ProgramSelect(buckets, files, FALSE, a, b)} :
        /\ down.ok = up.ok
        /\ down.value = Reverse(up.value)

\* a bucket returned three entries, two of one time, in descending order
C5_Witness ==
  /\ program = "bucket"
  /\ EntriesOf(1) = <<Entry(600, V1), Entry(600, V2), Entry(1023, V2)>>
  /\ lastOp.op = "select" /\ lastOp.ok
  /\ lastOp.value = <<Entry(1023, V2), Entry(600, V2), Entry(600, V1)>>

\* C6: for every range a <= b, delete({ from: a, to: b }) removes exactly
\* the entries with a <= time <= b and leaves every other entry present,
\* unchanged and in the same relative order (a = b: the entries of that
\* time).
C6_DeleteInRange ==
  \A a \in ProgramBounds, b \in ProgramBounds :
    a <= b =>
      \A r \in {ProgramDelete(buckets, files, a, b)} :
        /\ r.ok
        /\ AllEntries(r.buckets, r.files)
             = SelectOutOfRange(AllEntries(buckets, files), a, b)

\* C6 on contents in order of time
C6_OnSortedContent == SortedContent => C6_DeleteInRange

\* C7: once a drop has completed, and until an entry is stored again, every
\* select returns [], and after a flush that succeeds no bucket file is
\* left; on one bucket and on a series.
C7_DroppedIsEmpty ==
  dropped =>
    /\ \A a \in ProgramBounds, b \in ProgramBounds, asc \in BOOLEAN :
         \A q \in {ProgramSelect(buckets, files, asc, a, b)} :
           q.ok /\ q.value = <<>>
    /\ (lastOp.op \in {"flush", "unload", "autoFlush", "autoUnload"}
        /\ lastOp.ok)
         => \A id \in BucketIds : ~files[id].exists

\* a series was dropped, flushed with success, and has two buckets
C7_Witness ==
  /\ program = "series"
  /\ dropped
  /\ lastOp.op = "flush" /\ lastOp.ok
  /\ Len(buckets) = 2
  /\ \A j \in 1..2 : buckets[j].data.defined /\ ~buckets[j].requireFlush

\* the file that holds the given entries: none when there is no entry
FileOf(entries) == IF entries = <<>> THEN NoFile ELSE File(entries)

\* C8 (I5, persistence): right after a flush of a loaded bucket has
\* succeeded, the file of the bucket holds exactly the entries the bucket
\* has in memory, and does not exist when there is none.
C8_FlushedFileHoldsEntries ==
  (lastOp.op \in {"flush", "autoFlush"} /\ lastOp.ok) =>
    \A j \in 1..Len(buckets) :
      buckets[j].data.defined
        => files[buckets[j].id] = FileOf(buckets[j].data.bytes)

\* the sequences a select returns for every range and direction
Selects(bs, fs) ==
  [a \in ProgramBounds, b \in ProgramBounds, asc \in BOOLEAN |->
     ProgramSelect(bs, fs, asc, a, b).value]

\* C9: when a flush() of a series succeeds, a series opened on the same
\* directory returns to every select, for every range and direction, what
\* the flushed series returned right before the flush.
C9_ReopenedSelectsTheSame ==
  [][(program = "series" /\ lastOp'.op = "flush" /\ lastOp'.ok)
       => Selects(open(files'), files') = Selects(buckets, files)]_vars

\* a series with entries in two buckets was flushed and opened again
C9_Witness ==
  /\ program = "series"
  /\ lastOp.op = "open"
  /\ Len(buckets) = 2
  /\ files[1].content = <<Entry(600, V1)>>
  /\ files[3].content = <<Entry(1536, V2)>>

\* a step that is a flush({ unload: true }) that succeeds leaves every
\* bucket unloaded and clean and every select as it was
UnloadKeepsSelects ==
  (lastOp'.op = "unload" /\ lastOp'.ok)
    => /\ \A j \in 1..Len(buckets') :
            ~buckets'[j].data.defined /\ ~buckets'[j].requireFlush
       /\ Selects(buckets', files') = Selects(buckets, files)

\* C10: a flush({ unload: true }) that succeeds leaves every bucket
\* unloaded and clean, and a select made next returns, for every range and
\* direction, what it returned right before the flush.
C10_UnloadedSelectsTheSame == [][UnloadKeepsSelects]_vars

\* C10 for the buckets of a series
C10_OfSeries == [][program = "series" => UnloadKeepsSelects]_vars


(* ---------------------------------------------------------------------- *)
(* Claims on the queues                                                   *)
(* ---------------------------------------------------------------------- *)

\* the operations whose promise has not settled
Unsettled == {queue.chain[k].id : k \in 1..Len(queue.chain)}

\* C11: read-your-writes without awaiting: a select or a flush submitted to
\* a bucket after pushes that the caller did not await runs only after all of
\* them (none of them is unsettled once it runs or has settled), and the
\* select returns every accepted entry of these pushes that lies in its range.
C11_ReadYourWrites ==
  program = "queue" =>
    /\ \A k \in 1..Len(queue.chain) :
         (queue.chain[k].call.op \in {"select", "flush"}
            /\ queue.chain[k].state # "pending")
           => queue.chain[k].after \cap Unsettled = {}
    /\ queue.settledOp \in {"select", "flush"}
         => queue.settledAfter \cap Unsettled = {}
    /\ (queue.settledOp = "select" /\ lastOp.ok)
         => \A a \in queue.acked :
              a.id \in queue.settledAfter
                => \E n \in 1..Len(lastOp.value) : lastOp.value[n] = a.entry

\* C12: the operations of one series complete in submission order: a task
\* that has started is the earliest submitted of the unsettled ones, and
\* every unsettled operation was submitted after the one that settled last,
\* whether that one was fulfilled or rejected.
C12_SeriesInSubmissionOrder ==
  program = "series" =>
    \A k \in 1..Len(queue.chain) :
      /\ queue.chain[k].id > queue.settledId
      /\ queue.chain[k].state # "pending"
           => \A j \in 1..Len(queue.chain) :
                queue.chain[j].id >= queue.chain[k].id

\* an operation of the series runs after the one before it was rejected,
\* while a later one waits
C12_Witness ==
  /\ program = "series"
  /\ queue.settledAs = "rejected"
  /\ Len(queue.chain) = 2
  /\ queue.chain[1].state = "running"
  /\ queue.chain[2].state = "pending"

\* C13: the operations of one bucket complete in submission order, whatever
\* their kind and arguments: every operation whose promise has not settled
\* was submitted after the operation whose promise settled last.
C13_BucketInSubmissionOrder ==
  program = "queue" =>
    \A k \in 1..Len(queue.chain) : queue.chain[k].id > queue.settledId

\* C14: a failed operation does not poison the queue of a bucket or of a
\* series: every promise that settles does so with the outcome of its own
\* task, which ran, and whatever was fulfilled or rejected before, the
\* task of the earliest unsettled operation can start.
C14_NoPoisoning ==
  /\ queue.ran
  /\ (queue.chain # <<>> /\ queue.chain[1].state = "pending")
       => ENABLED (Start \/ StartSeries)

\* after an operation of a bucket was rejected, the task of the next one
\* runs while a third one waits
C14_Witness ==
  /\ program = "queue"
  /\ queue.settledAs = "rejected"
  /\ Len(queue.chain) >= 2
  /\ queue.chain[1].state \in {"running", "write"}

(* ---------------------------------------------------------------------- *)
(* Claims on errors                                                       *)
(* ---------------------------------------------------------------------- *)

\* push(e) on the bucket used alone, where reading its file succeeds or not
PushAlone(e, ioOk) ==
  push(buckets[1], files[AloneId], ioOk, e.time, e.value)

\* push(e) is rejected exactly when its time is not in [from, to) or its
\* value has not the length of the bucket
RejectedExactly(e, r) ==
  ~r.ok <=> (~(buckets[1].from <= e.time /\ e.time < buckets[1].to)
               \/ e.value.length # valueByteLength)

\* a rejected push leaves the stored entries and the dirty flag as they were
RejectedUnchanged(r) ==
  ~r.ok => /\ Entries(r.b, r.file) = Entries(buckets[1], files[AloneId])
           /\ r.b.requireFlush = buckets[1].requireFlush

OpenCase1(o) ==
  /\ config.exists /\ config.version = 1
  /\ (~o.valueByteLength.defined
        \/ o.valueByteLength.value = config.valueByteLength)

OpenCase2(o) == ~config.exists /\ o.create /\ o.valueByteLength.defined

\* open succeeds in its case 2 only with the config file written, and it
\* fails only with an existing config file left as it was
OpenWrites(o, r) ==
  /\ (r.ok /\ OpenCase2(o))
       => r.config = ConfigV1(1, o.valueByteLength.value)
  /\ (~r.ok /\ config.exists) => r.config = config

\* C16: Series.open succeeds exactly when (1) the config file exists with
\* version 1 and the caller's valueByteLength is absent or equal to the
\* stored one, or (2) the config file is missing, create is true and the
\* caller gives valueByteLength, and then {version: 1, valueByteLength} is
\* written; in every other case it fails and leaves an existing config file
\* as it was.
C16_OpenSucceedsExactly ==
  program = "open" =>
    \A o \in OpenOptions :
      \A r \in {openSeries(config, files, o)} :
        /\ r.ok <=> (OpenCase1(o) \/ OpenCase2(o))
        /\ OpenWrites(o, r)

\* C16 amended: open succeeds only in these two cases, and in them it does
\* succeed as long as the file system does not fail (reading the config
\* file, writing it, reading the buckets directory) and every file name of
\* the buckets directory has a safe integer as its stem.
C16_Amended ==
  program = "open" =>
    \A o \in OpenOptions :
      \A r \in {openSeries(config, files, o)} :
        /\ r.ok => (OpenCase1(o) \/ OpenCase2(o))
        /\ (o.read /\ o.write /\ o.readdir /\ o.names)
             => (r.ok <=> (OpenCase1(o) \/ OpenCase2(o)))
        /\ OpenWrites(o, r)

\* an open with another valueByteLength than the stored one has failed on a
\* directory whose config file was written by an earlier open
C16_Witness ==
  /\ program = "open"
  /\ lastOp.op = "open" /\ ~lastOp.ok /\ lastOp.error = "Error"
  /\ config = ConfigV1(1, valueByteLength)
  /\ lastOp.value[1].valueByteLength = [defined |-> TRUE,
                                        value |-> timeByteLength + 8]
  /\ lastOp.value[1].read /\ lastOp.value[1].readdir /\ lastOp.value[1].names

\* the bucket promises of the fan-outs a series can make in this state, all
\* settled: of the inserts, of a select in either direction, of a delete
\* (each over the whole series), of a drop and of the flushes, the file
\* system failing on some files or on none
FanOuts ==
  UNION {
    {pushEach(Calls(buckets, files, <<>>), io, sortTimeSeriesEntries(entries))
       : entries \in SeriesBatches \ {<<>>}}
    \cup
    {callEach(Calls(buckets, files, <<>>), io,
              indexesBetween(getTimeRangeBucketIndexesInArray(
                               buckets, 600, 1536), call.asc), call)
       : call \in {Call("select", TRUE, 600, 1536, FALSE),
                   Call("select", FALSE, 600, 1536, FALSE),
                   Call("delete", TRUE, 600, 1536, FALSE)}}
    \cup
    {callEach(Calls(buckets, files, <<>>), io, allIndexes(buckets), call)
       : call \in {Call("drop", TRUE, 0, 0, FALSE),
                   Call("flush", TRUE, 0, 0, FALSE),
                   Call("flush", TRUE, 0, 0, TRUE)}}
    : io \in IoOutcomes(SeriesIds)}

\* the rejected ones of the promises, in the order of the promises
Rejected(results) == SelectSeq(results, LAMBDA result : ~result.ok)

\* C17: the fan-out of a series operation over bucket sub-operations: with
\* no failure it is fulfilled with the sub-results in dispatch order; with
\* one failure it is rejected with the error of that sub-operation; with two
\* or more it is rejected with one aggregate error that carries every
\* failure reason, in dispatch order.
C17_ErrorAggregation ==
  program = "series" =>
    \A c \in FanOuts :
      \A h \in {handlePromiseAllSettledResult(c.results)} :
        /\ Len(Rejected(c.results)) = 0
             => /\ h.ok
                /\ h.value = [k \in 1..Len(c.results) |-> c.results[k].value]
        /\ Len(Rejected(c.results)) = 1
             => ~h.ok /\ h.error = Rejected(c.results)[1].error
        /\ Len(Rejected(c.results)) >= 2
             => /\ ~h.ok /\ h.error = "AggregateError"
                /\ h.errors = [k \in 1..Len(Rejected(c.results)) |->
                                 Rejected(c.results)[k].error]

\* an insert was rejected with an aggregate error, and the series can make
\* a fan-out where two sub-operations fail for different reasons
C17_Witness ==
  /\ program = "series"
  /\ lastOp.op = "insert" /\ lastOp.error = "AggregateError"
  /\ \E c \in FanOuts :
       /\ Len(Rejected(c.results)) = 2
       /\ Rejected(c.results)[1].error # Rejected(c.results)[2].error

\* C18: the bucket list of a series is always sorted by strictly ascending
\* id, so that no two handles share an id: after open and after every push
\* or insert, to a time whose bucket is in the list or not.
C18_StrictlyAscendingIds ==
  program = "series" =>
    \A j \in 1..(Len(buckets) - 1) :
      Ordered(buckets[j].id, buckets[j + 1].id)
        /\ buckets[j].id < buckets[j + 1].id

\* C18 for the handles of the buckets that store entries: no two handles
\* of the list share an id
C18_NoTwoHandlesOfAnId ==
  program = "series" =>
    \A j \in 1..Len(buckets), k \in 1..Len(buckets) :
      (j # k /\ buckets[j].id # NaN) => buckets[j].id # buckets[k].id

(* ---------------------------------------------------------------------- *)
(* Claims on the dirty flag                                               *)
(* ---------------------------------------------------------------------- *)

\* C19: whenever the entries a bucket holds in memory differ from the
\* content of its file (a missing file counting as empty), its dirty flag
\* #requireFlush is set, whatever operation changed the entries and whether
\* it ended in an error or not.
C19_DirtyWhenDifferent ==
  program = "store" =>
    \A j \in 1..Len(buckets) :
      (buckets[j].data.defined
         /\ buckets[j].data.bytes # files[buckets[j].id].content)
        => buckets[j].requireFlush

\* C20: while a flush of a bucket is suspended in file I/O no other task
\* of the bucket has started, so that a mutation submitted meanwhile is
\* applied after the flush; and when a flush has succeeded, whatever
\* explicit flushes, timer-driven flushes and mutations came before it, the
\* file holds every entry the bucket holds.
C20_FlushPersistsMutations ==
  program = "queue" =>
    /\ \A k \in 1..Len(queue.chain), j \in 1..Len(queue.chain) :
         (queue.chain[k].state \in {"mkdir", "write"} /\ j # k)
           => queue.chain[j].state = "pending"
    /\ (lastOp.op \in FlushOps /\ lastOp.ok /\ buckets[1].data.defined)
         => files[AloneId] = FileOf(buckets[1].data.bytes)


(* ---------------------------------------------------------------------- *)
(* Claims on flushes and timers                                           *)
(* ---------------------------------------------------------------------- *)

\* the flushes of a bucket: the explicit ones and those of the two timers
FlushNames == {"flush", "unload", "autoFlush", "autoUnload"}

\* C21: a flush whose mkdir, rm or writeFile fails rejects, leaves the
\* dirty flag set and keeps the data in memory also with unload: true, and
\* leaves the file as it was; a later flush whose I/O succeeds then stores
\* all the entries the bucket holds.
C21_FailedFlushKeepsData ==
  /\ (lastOp.op \in FlushNames /\ ~lastOp.ok)
       => buckets[1].requireFlush /\ buckets[1].data.defined
  /\ \A unload \in BOOLEAN :
       LET b == buckets[1]
           r == flush(b, files[b.id], FALSE, unload)
           again == flush(r.b, r.file, TRUE, unload)
       IN  b.requireFlush =>
             /\ ~r.ok
             /\ r.b.requireFlush
             /\ r.b.data.defined
             /\ r.b.data = b.data
             /\ r.file = files[b.id]
             /\ again.ok
             /\ ~again.b.requireFlush
             /\ again.file = FileOf(b.data.bytes)

\* reached: a flush with unload: true of a dirty bucket holding an entry
\* has just failed
C21_Witness ==
  /\ lastOp.op \in {"unload", "autoUnload"}
  /\ ~lastOp.ok
  /\ buckets[1].requireFlush
  /\ buckets[1].data.defined
  /\ Len(buckets[1].data.bytes) > 0

\* the data operations of a bucket: those run by #runDataOperation
DataOps == {"push", "insert", "select", "delete", "drop"}

\* the handle of each timer is held exactly when one callback of its kind
\* is outstanding, and no more than one is
OneTimerOfEachKind(b) ==
  /\ b.flushTimeouts = (IF b.autoFlushTimer THEN 1 ELSE 0)
  /\ b.unloadTimeouts = (IF b.autoUnloadTimer THEN 1 ELSE 0)

\* while the task of a data operation executes both timers are disarmed
DisarmedWhileRunning ==
  \A k \in 1..Len(queue.chain) :
    (queue.chain[k].call.op \in DataOps /\ queue.chain[k].state = "running")
      => /\ ~buckets[1].autoFlushTimer /\ buckets[1].flushTimeouts = 0
         /\ ~buckets[1].autoUnloadTimer /\ buckets[1].unloadTimeouts = 0

\* the step in which the task of a data operation ends, its promise
\* fulfilled or rejected, leaves one timer of each kind armed
ArmedAtTheEnd ==
  (/\ Len(queue'.chain) < Len(queue.chain)
   /\ queue'.settledOp \in DataOps
   /\ queue'.ran)
    => /\ buckets'[1].autoFlushTimer /\ buckets'[1].flushTimeouts = 1
       /\ buckets'[1].autoUnloadTimer /\ buckets'[1].unloadTimeouts = 1

\* C22: a data operation of a bucket (push, insert, select and delete in
\* range, drop) runs with both timers disarmed and ends, fulfilled,
\* rejected by a validation or by a failed load, with exactly one
\* auto-flush timer and one auto-unload timer armed; at no time is more
\* than one callback of a kind outstanding.
C22_TimersAroundDataOperations ==
  /\ [](program = "queue" =>
          DisarmedWhileRunning /\ OneTimerOfEachKind(buckets[1]))
  /\ [][program = "queue" => ArmedAtTheEnd]_vars

\* reached: a data operation was rejected and a later one failed to load,
\* and the timers are armed
C22_Witness ==
  /\ program = "queue"
  /\ queue.settledOp \in DataOps
  /\ queue.ran
  /\ queue.settledAs = "rejected"
  /\ lastOp.error = "IoError"
  /\ buckets[1].autoFlushTimer /\ buckets[1].autoUnloadTimer

\* some task of the given operations has started and has not ended
InFlight(ops) ==
  \E k \in 1..Len(queue.chain) :
    queue.chain[k].state # "pending" /\ queue.chain[k].call.op \in ops

\* the step of a timer callback: it chains a flush the caller did not call
TimerStep ==
  Len(queue'.chain) > Len(queue.chain) /\ queue'.calls = queue.calls

\* a step of the task at the head of the chain, which is a flush
FlushStep ==
  /\ queue.chain # <<>>
  /\ queue.chain[1].call.op \in FlushOps
  /\ queue'.next = queue.next
  /\ queue' # queue

\* the handles and the outstanding callbacks of the two timers
Timers(b) ==
  <<b.autoFlushTimer, b.flushTimeouts, b.autoUnloadTimer, b.unloadTimeouts>>

\* C23, as stated: while an operation of the bucket is in flight, a flush
\* as well as a data operation, no timer of the bucket is armed, so none
\* can fire.
C23_NoTimerWhileInFlight ==
  (program = "queue" /\ InFlight(DataOps \cup FlushOps))
    => Timers(buckets[1]) = <<FALSE, 0, FALSE, 0>>

\* C23, amended: no timer fires while a data operation (push, insert,
\* select and delete in range, drop) is in flight; a flush neither disarms
\* nor arms a timer, so a timer may fire while a flush is suspended in its
\* file I/O, and the flush of its callback is then chained behind it.
C23_Amended ==
  /\ [][program = "queue" => (TimerStep => ~InFlight(DataOps))]_vars
  /\ [][program = "queue" =>
          (FlushStep => Timers(buckets'[1]) = Timers(buckets[1]))]_vars

\* reached: the auto-flush timer fired while a flush called by the caller
\* was suspended in its file I/O, and its flush waits behind that one
C23_Witness ==
  /\ program = "queue"
  /\ Len(queue.chain) >= 2
  /\ queue.chain[1].call.op = "flush"
  /\ queue.chain[1].state \in {"mkdir", "write"}
  /\ queue.chain[2].call.op = "autoFlush"

\* the last data operation of the bucket has ended and the caller calls
\* no further operation
Idle ==
  /\ program = "queue"
  /\ queue.calls = MaxOps
  /\ \A k \in 1..Len(queue.chain) : queue.chain[k].call.op \notin DataOps

\* the same, and no timer has fired since that operation armed them
LastOperationEnded == Idle /\ buckets[1].autoFlushTimer

\* the bucket is clean and unloaded, and no timer is armed
Released ==
  /\ program = "queue"
  /\ ~buckets[1].requireFlush
  /\ ~buckets[1].data.defined
  /\ Timers(buckets[1]) = <<FALSE, 0, FALSE, 0>>

\* the file I/O of a flush has failed
FlushFailed == lastOp.op \in FlushOps /\ ~lastOp.ok

\* C24: once the last data operation of a bucket has ended and no further
\* operation is called, the bucket becomes clean and unloaded with no
\* timer armed, unless the file I/O of a flush fails; it then stays so, and
\* no flush arms a timer, so that the timers fire finitely often.
C24_IdleBucketReleased ==
  /\ LastOperationEnded ~> (Released \/ FlushFailed)
  /\ [][(Idle /\ Released) => Released']_vars
  /\ [][(Idle /\ FlushStep) =>
          /\ buckets'[1].flushTimeouts <= buckets[1].flushTimeouts
          /\ buckets'[1].unloadTimeouts <= buckets[1].unloadTimeouts]_vars

\* reached: an entry was pushed, the timers fired, the entry is in the file
\* and the bucket is released
C24_Witness ==
  /\ Idle
  /\ Released
  /\ queue.chain = <<>>
  /\ lastOp.op = "autoUnload"
  /\ lastOp.ok
  /\ files[AloneId] = File(<<Entry(600, V1)>>)

(* ---------------------------------------------------------------------- *)
(* Claims on the fan-out of the series                                    *)
(* ---------------------------------------------------------------------- *)

\* C25: the promise of a series operation settles only once the promise of
\* every bucket operation its task called has settled, also when one of
\* them was rejected early, and the next series operation of the chain
\* does not start before: every unsettled bucket promise belongs to the
\* one series task that runs, at the head of the chain.
C25_FanOutAwaited ==
  program = "fanout" =>
    /\ \A j \in 1..Len(queue.subs) :
         queue.subs[j].status = "pending"
           => /\ queue.chain # <<>>
              /\ queue.chain[1].state = "running"
              /\ queue.chain[1].id = queue.subs[j].task
    /\ \A k \in 2..Len(queue.chain) : queue.chain[k].state = "pending"

\* reached: of the two pushes of an insert the first is rejected while the
\* second has not settled, and another series operation waits
C25_Witness ==
  /\ program = "fanout"
  /\ Len(queue.chain) = 2
  /\ queue.chain[1].call.op = "insert"
  /\ queue.chain[1].state = "running"
  /\ queue.chain[2].state = "pending"
  /\ \E j, h \in 1..Len(queue.subs) :
       /\ queue.subs[j].status = "rejected"
       /\ queue.subs[h].status = "pending"

\* the indexes (from 0) of the buckets whose id lies in the ids of the
\* range [from, to]
IdsInRange(from, to) ==
  {i \in 0..(Len(buckets) - 1) :
     /\ getIdFromTime(from) <= buckets[i + 1].id
     /\ buckets[i + 1].id <= getIdFromTime(to)}

\* the indexes of the span [fromIdx, toIdx) computed last
SpanIndexes == {i \in 0..(Len(buckets) - 1) :
                  lastOp.value[3] <= i /\ i < lastOp.value[4]}

MissTimes == {0, 511, 512, 1023, 1024, 1600}

\* the range [from, to] lies before the bucket b or after it
Misses(b, from, to) == to < b.from \/ from >= b.to

\* C27: a select or a delete whose range lies wholly before or wholly
\* after the times [from, to) of the bucket has no effect: the select
\* returns no entry, the delete returns, no file is read (the outcome is
\* the same when the file system fails), and the bucket, loaded or not,
\* dirty or not, its timers and its file are as before.
C27_MissedBucketUntouched ==
  \A from \in MissTimes, to \in MissTimes, asc, ioOk \in BOOLEAN :
    Misses(buckets[1], from, to) =>
      LET b == buckets[1]
          s == select(b, files[b.id], ioOk, asc, from, to)
          d == delete(b, files[b.id], ioOk, from, to)
      IN  /\ s.ok /\ s.value = <<>> /\ s.b = b /\ s.file = files[b.id]
          /\ d.ok /\ d.value = <<>> /\ d.b = b /\ d.file = files[b.id]

\* reached: a select was fulfilled on a bucket that is still unloaded while
\* its file holds an entry, which only a select that missed the bucket does
C27_Witness ==
  /\ lastOp.op = "select"
  /\ lastOp.ok
  /\ lastOp.value = <<>>
  /\ ~buckets[1].data.defined
  /\ files[AloneId].exists
  /\ Len(files[AloneId].content) > 0

\* sequence new is sequence old with entry e put in at some position
InsertedInto(old, e, new) ==
  /\ Len(new) = Len(old) + 1
  /\ \E k \in 1..Len(new) : new[k] = e /\ Without(new, k) = old

\* C28: a push that is fulfilled adds exactly one entry: the length of the
\* data grows by the length of one entry and stays a multiple of it, and
\* the bucket then holds the entries it held before, each with its time
\* and value and in the same order, with the new entry among them,
\* whether the bucket was empty, the entry lands first, last or in the
\* middle, or its time equals that of entries already stored.
C28_PushAddsOneEntry ==
  \A e \in AloneEntries, ioOk \in BOOLEAN :
    LET b == buckets[1]
        buf == Loaded(b, files[b.id], ioOk)
        raw == pushRaw(buf, e.time, e.value)
        r == push(b, files[b.id], ioOk, e.time, e.value)
    IN  r.ok =>
          /\ r.b.data.defined
          /\ InsertedInto(Entries(b, files[b.id]), e, r.b.data.bytes)
          /\ raw.ok
          /\ raw.buf.length = buf.length + entryByteLength
          /\ raw.buf.length % entryByteLength = 0
          /\ raw.buf.length <= byteLength(raw.buf)
          /\ r.b.data.bytes
               = SubSeq(raw.buf.slots, 1, raw.buf.length \div entryByteLength)

\* reached: pushes were fulfilled and the bucket holds three entries, two
\* of them at the same time, after the last push
C28_Witness ==
  /\ lastOp.op = "push"
  /\ lastOp.ok
  /\ buckets[1].data.defined
  /\ Len(buckets[1].data.bytes) = 3
  /\ buckets[1].data.bytes[1].time = 512
  /\ buckets[1].data.bytes[2].time = 600
  /\ buckets[1].data.bytes[3].time = 600
  /\ buckets[1].data.bytes[2].value # buckets[1].data.bytes[3].value

(* ---------------------------------------------------------------------- *)
(* Claims on binarySearch and on the buffer                               *)
(* ---------------------------------------------------------------------- *)

\* C29: on a sorted collection binarySearch returns an index k from 0 to
\* the length such that every item before k is at most the value and every
\* item from k on is at least the value; when no item equals the value, k
\* is the number of the smaller items, and when one does, the item at k
\* equals the value.
C29_BinarySearchInsertionIndex ==
  lastOp.op = "search" =>
    LET collection == lastOp.value[1]
        value == lastOp.value[2]
        k == lastOp.value[3]
        equal == {i \in 1..Len(collection) : collection[i] = value}
        smaller == {i \in 1..Len(collection) : collection[i] < value}
    IN  /\ k \in 0..Len(collection)
        /\ \A i \in 1..k : collection[i] <= value
        /\ \A i \in (k + 1)..Len(collection) : collection[i] >= value
        /\ equal = {} => k = Cardinality(smaller)
        /\ equal # {} => (k + 1) \in equal

\* reached: the value is found among four equal items, at the second
C29_Witness ==
  /\ lastOp.op = "search"
  /\ lastOp.value = <<(<<4, 4, 4, 4>>), 4, 1>>

\* the first n bytes of the slots: whole entries
FirstBytes(slots, n) ==
  [i \in 1..Min(n \div entryByteLength, Len(slots)) |-> slots[i]]

\* C30: resize(n) fails exactly when n exceeds 2^32, on a buffer created
\* empty and on one created over the bytes of a file; otherwise the length
\* is n afterwards, within the capacity, the capacity is not smaller than
\* before, and the first min(old length, n) bytes are the same.
C30_ResizeWithinCapacity ==
  lastOp.op = "resize" =>
    LET before == lastOp.value[1]
        n == lastOp.value[2]
        after == lastOp.value[3]
        kept == Min(before.length, n)
    IN  /\ lastOp.ok = ~overMaxByteLength(n)
        /\ lastOp.ok =>
             /\ after.length = n
             /\ n <= byteLength(after)
             /\ ~overMaxByteLength(byteLength(after))
             /\ byteLength(after) >= byteLength(before)
             /\ Len(after.slots) >= kept \div entryByteLength
             /\ FirstBytes(after.slots, kept) = FirstBytes(before.slots, kept)

(* ---------------------------------------------------------------------- *)
(* Implicit claims on a bucket                                            *)
(* ---------------------------------------------------------------------- *)

\* a step that releases the in-memory data of the bucket
Unloads == buckets[1].data.defined /\ ~buckets'[1].data.defined

\* C31: in every reachable state a bucket that is dirty is loaded, whatever
\* data operations, flushes called by the caller (with or without unload,
\* their I/O failing or not) and flushes of the timers interleave; so no
\* flush fails on the assertion of its write branch, and a step that
\* unloads leaves the bucket clean and, when the bucket was dirty, the file
\* holding the entries it releases.
C31_DirtyImpliesLoaded ==
  /\ [](\A j \in 1..Len(buckets) :
          buckets[j].requireFlush => buckets[j].data.defined)
  /\ [](lastOp.op \in FlushOps => lastOp.error # "TypeError")
  /\ [][(program = "queue" /\ Unloads) =>
          /\ ~buckets'[1].requireFlush
          /\ buckets[1].requireFlush =>
               files'[AloneId] = FileOf(buckets[1].data.bytes)]_vars

\* reached: a flush called by the caller failed on the dirty bucket, which
\* is still loaded, the unload timer fired, its flush is suspended in
\* writeFile and a push waits behind it
C31_Witness ==
  /\ program = "queue"
  /\ lastOp.op = "flush" /\ ~lastOp.ok
  /\ buckets[1].requireFlush /\ buckets[1].data.defined
  /\ Len(queue.chain) >= 2
  /\ queue.chain[1].call.op = "autoUnload"
  /\ queue.chain[1].state = "write"
  /\ queue.chain[2].call.op = "push"

\* C32: insert is all-or-nothing: when insert(entries) is rejected because
\* an entry of the batch is out of range or has a value of the wrong
\* length, the bucket holds the same entries as before the call.
C32_InsertAllOrNothing ==
  [][(/\ program = "bucket"
      /\ lastOp'.op = "insert"
      /\ ~lastOp'.ok
      /\ lastOp'.error \in {"RangeError", "Error"})
       => Entries(buckets'[1], files'[AloneId])
            = Entries(buckets[1], files[AloneId])]_vars

\* C33: on every content of a bucket an inverted range (from > to) is an
\* empty range: select returns [] and does not fail, and delete leaves the
\* entries as they are (none removed, none added, none twice).
C33_InvertedRangeIsEmpty ==
  program = "bucket" =>
    \A from \in AloneBounds, to \in AloneBounds, asc \in BOOLEAN :
      from > to =>
        LET b == buckets[1]
            file == files[AloneId]
            s == select(b, file, TRUE, asc, from, to)
            d == delete(b, file, TRUE, from, to)
        IN  /\ s.ok
            /\ s.value = <<>>
            /\ d.ok
            /\ Entries(d.b, d.file) = Entries(b, file)

\* C34: whenever the bucket is loaded and dirty and none of its operations
\* is running or queued, at least one of its two timers is armed, also
\* after flushes of the timers or of the caller have failed on their file
\* I/O: unsaved data always has a flush attempt pending.
C34_DirtyHasFlushPending ==
  (/\ program = "queue"
   /\ buckets[1].data.defined
   /\ buckets[1].requireFlush
   /\ queue.chain = <<>>)
    => (buckets[1].autoFlushTimer \/ buckets[1].autoUnloadTimer)

=============================================================================
